---- MODULE Spec2Model ----
(***************************************************************************)
(* Model of the pnow-nocodb-migrations entity migrators (company, lead,    *)
(* position, contact): identifier normalisation, company resolution,       *)
(* per-record migration with its failure classification, the batch         *)
(* orchestrators and the process exit code.                                *)
(*                                                                         *)
(* Program strings are sequences of one-character strings, so that         *)
(* replace / toLowerCase / substring / startsWith are computed.  A JS      *)
(* null is the sequence NULL, which is no string of characters.            *)
(***************************************************************************)
EXTENDS Integers, Sequences, FiniteSets, TLC

\* ------------------------------------------------------------------ bounds
\* records fetched per page (the scripts use 50; scaled to the table sizes)
BatchSize == 2
\* store calls that may throw over one behaviour
MaxFaults == 1
\* times the same script is run against the same stores
MaxRuns == 2
\* dashes placed into an identifier given to the normaliser
MaxDashes == 2
\* longest job title built from TitleChars
MaxTitleLen == 4

\* ------------------------------------------------------- string primitives
NULL == <<"<null>">>

Min(a, b) == IF a < b THEN a ELSE b

Rep(c, n) == [i \in 1..n |-> c]

\* !x for a string-or-null x: null and "" are falsy
Falsy(s) == s = NULL \/ s = <<>>

LowerLetters == <<"a","b","c","d","e","f","g","h","i","j","k","l","m",
                  "n","o","p","q","r","s","t","u","v","w","x","y","z">>
UpperLetters == <<"A","B","C","D","E","F","G","H","I","J","K","L","M",
                  "N","O","P","Q","R","S","T","U","V","W","X","Y","Z">>
Digits == {"0","1","2","3","4","5","6","7","8","9"}

ToLowerChar(c) ==
  IF \E i \in 1..26 : UpperLetters[i] = c
  THEN LowerLetters[CHOOSE i \in 1..26 : UpperLetters[i] = c]
  ELSE c

toLowerCase(s) == [i \in 1..Len(s) |-> ToLowerChar(s[i])]

\* String.prototype.substring(0, n)
substring0(s, n) == SubSeq(s, 1, Min(n, Len(s)))

\* String.prototype.substring(n)
substringFrom(s, n) == SubSeq(s, n + 1, Len(s))

startsWith(s, p) == Len(s) >= Len(p) /\ SubSeq(s, 1, Len(p)) = p

\* String.prototype.includes / the store's "contains" filter
includes(s, p) ==
  \E i \in 0..(Len(s) - Len(p)) : SubSeq(s, i + 1, i + Len(p)) = p

IsWhite(c) == c \in {" ", "\t"}

RECURSIVE trimStart(_)
trimStart(s) == IF s # <<>> /\ IsWhite(Head(s)) THEN trimStart(Tail(s)) ELSE s

RECURSIVE trimEnd(_)
trimEnd(s) ==
  IF s # <<>> /\ IsWhite(s[Len(s)]) THEN trimEnd(SubSeq(s, 1, Len(s) - 1)) ELSE s

trim(s) == trimEnd(trimStart(s))

\* id.replace(/-/g, "")
RemoveDashes(s) == SelectSeq(s, LAMBDA c : c # "-")

\* /^[0-9a-f]{n}$/i
IsHexChar(c) == c \in Digits \/ ToLowerChar(c) \in {"a","b","c","d","e","f"}
IsHexOfLen(s, n) == Len(s) = n /\ \A i \in 1..Len(s) : IsHexChar(s[i])

\* String.prototype.padEnd(n, c)
padEnd(s, n, c) == IF Len(s) >= n THEN s ELSE s \o Rep(c, n - Len(s))

\* pads whatever is left after the dashes are removed
normalizeUuidPadAny(id) ==
  IF Falsy(id) THEN NULL
  ELSE LET normalizedId == RemoveDashes(id)
       IN IF Len(normalizedId) >= 32 THEN substring0(normalizedId, 32)
          ELSE padEnd(normalizedId, 32, "0")

\* -------------------------------------------------- identifier normaliser
normalizeUuid(id) ==
  IF Falsy(id) THEN NULL
  ELSE LET normalizedId == RemoveDashes(id)
       IN IF IsHexOfLen(normalizedId, 32) THEN normalizedId
          ELSE IF IsHexOfLen(normalizedId, 24) THEN padEnd(normalizedId, 32, "0")
          ELSE NULL

\* console.warn("Invalid UUID format") inside normalizeUuid
normalizeUuidWarns(id) == ~Falsy(id) /\ normalizeUuid(id) = NULL

\* ------------------------------------------------------ domain normaliser
Www == <<"w","w","w",".">>

normalizeDomain(domain) ==
  IF Falsy(domain) THEN <<>>
  ELSE LET normalized == trim(toLowerCase(domain))
       IN IF startsWith(normalized, Www) THEN substringFrom(normalized, 4)
          ELSE normalized

\* ------------------------------------------------------------ target store
\* The target's identifier columns hold a 128-bit value: the dashed and the
\* undashed text of one identifier, in either case, name the same row, and
\* the store reads an identifier back in the dashed lower-case form.  A text
\* that is no identifier is rejected (error P2023).
Dashed(h) ==
  SubSeq(h, 1, 8) \o <<"-">> \o SubSeq(h, 9, 12) \o <<"-">> \o SubSeq(h, 13, 16)
    \o <<"-">> \o SubSeq(h, 17, 20) \o <<"-">> \o SubSeq(h, 21, 32)

IsUuidText(id) ==
  /\ id # NULL
  /\ IsHexOfLen(RemoveDashes(id), 32)
  /\ \/ Len(id) = 32
     \/ id = Dashed(RemoveDashes(id))

CanonUuid(id) == Dashed(toLowerCase(RemoveDashes(id)))

\* /^[0-9a-f]{8}-[0-9a-f]{4}-[0-9a-f]{4}-[0-9a-f]{4}-[0-9a-f]{12}$/i
IsDashedUuid(id) ==
  /\ Len(id) = 36
  /\ IsHexOfLen(RemoveDashes(id), 32)
  /\ id = Dashed(RemoveDashes(id))

\* uuidv7(): identifiers generated for a text that is no identifier
Uuidv7s == {Dashed(Rep("7", 32)), Dashed(Rep("7", 31) \o <<"8">>)}

\* returns the text unchanged
ensureValidUuidKeep(id) == {id}

\* the values ensureValidUuid(id) may return
ensureValidUuid(id) ==
  IF Falsy(id) THEN {NULL}
  ELSE IF IsDashedUuid(id) THEN {id}
  ELSE IF IsHexOfLen(id, 32) THEN {Dashed(id)}
  ELSE Uuidv7s

\* "no row" result of findFirst / findUnique
NoRow == [none |-> TRUE]

\* identifiers the store generates for rows created without one
GenId(n) == <<"gen">> \o Rep("#", n)
GenUuid(n) == Rep("0", 32 - n) \o Rep("9", n)

\* a thrown error as the catch handlers see it: code and meta.target
Err(code) ==
  CASE code = "P2002email" -> [code |-> "P2002", target |-> "email"]
    [] code = "P2002id"    -> [code |-> "P2002", target |-> "id"]
    [] code = "P2002domain" -> [code |-> "P2002", target |-> "domain"]
    [] OTHER               -> [code |-> code, target |-> "none"]

ErrorCodes == {"P2023", "P2002email", "P2002id", "P2000", "P1001"}

\* ---------------------------------------------------------- statistics
ContactStats0 ==
  [total |-> 0, successful |-> 0, duplicates |-> 0, failed |-> 0,
   companyMatches |-> [byId |-> 0, byDomain |-> 0],
   failures |-> [uuidFormat |-> 0, missingCompany |-> 0, emailStatusError |-> 0,
                 duplicateEmail |-> 0, dataValidation |-> 0, dbError |-> 0,
                 other |-> 0]]

PositionStats0 ==
  [total |-> 0, successful |-> 0, duplicates |-> 0, failed |-> 0,
   companyMatches |-> [byId |-> 0, byDomain |-> 0],
   failures |-> [uuidFormat |-> 0, missingCompany |-> 0, missingJobRole |-> 0,
                 dataValidation |-> 0, dbError |-> 0, other |-> 0]]

\* stats.failures.<cat>++ without stats.failed++
FailedCategoryOnly(st, cat) ==
  [st EXCEPT !.failures[cat] = @ + 1]

\* stats.failed++; stats.failures.<cat>++
Failed(st, cat) ==
  [st EXCEPT !.failed = @ + 1, !.failures[cat] = @ + 1]

\* --------------------------------------------------------- findCompany
\* One resolution of a legacy company reference.  F is the set of store
\* calls that throw while this record is processed.  The result is the set
\* of outcomes the store may produce: findFirst without orderBy returns any
\* matching row.
DomainVariants(normalizedDomain) ==
  IF startsWith(normalizedDomain, Www)
  THEN <<normalizedDomain, substringFrom(normalizedDomain, 4)>>
  ELSE <<normalizedDomain, Www \o normalizedDomain>>

EqualsInsensitive(a, b) == a # NULL /\ toLowerCase(a) = toLowerCase(b)
ContainsInsensitive(a, b) == a # NULL /\ includes(toLowerCase(a), toLowerCase(b))

\* the second findFirst of the domain lookup: OR of the three filters
DomainOrMatches(companies, normalizedDomain) ==
  LET v == DomainVariants(normalizedDomain)
  IN {r \in companies :
        \/ EqualsInsensitive(r.domain, v[1])
        \/ EqualsInsensitive(r.domain, v[2])
        \/ ContainsInsensitive(r.domain, normalizedDomain)}

FcNone(n) == [company |-> NoRow, byId |-> 0, byDomain |-> 0, lookups |-> n]

findCompany(db, old, oldCompanyId, F) ==
  IF Falsy(oldCompanyId) THEN {FcNone(1)}
  ELSE
    LET normalizedId == normalizeUuid(oldCompanyId)
        byIdRows == IF normalizedId = NULL THEN {}
                    ELSE {r \in db.company : r.id = CanonUuid(normalizedId)}
        oldRows == {o \in {old.companies[i] : i \in 1..Len(old.companies)} :
                      o.id = oldCompanyId}
    IN
    IF normalizedId # NULL /\ "company.findFirst.id" \in F THEN {FcNone(1)}
    ELSE IF byIdRows # {}
    THEN {[company |-> r, byId |-> 1, byDomain |-> 0, lookups |-> 1] : r \in byIdRows}
    ELSE IF "companies.findUnique" \in F THEN {FcNone(1)}
    ELSE IF oldRows = {} THEN {FcNone(1)}
    ELSE
      LET oldCompany == CHOOSE o \in oldRows : TRUE
          normalizedDomain == normalizeDomain(oldCompany.domain)
          exact == {r \in db.company : r.domain = normalizedDomain}
          loose == DomainOrMatches(db.company, normalizedDomain)
      IN
      IF Falsy(oldCompany.domain) \/ normalizedDomain = <<>> THEN {FcNone(1)}
      ELSE IF "company.findFirst.domain" \in F THEN {FcNone(1)}
      ELSE IF exact # {}
      THEN {[company |-> r, byId |-> 0, byDomain |-> 1, lookups |-> 1] : r \in exact}
      ELSE IF "company.findFirst.or" \in F THEN {FcNone(1)}
      ELSE IF loose # {}
      THEN {[company |-> r, byId |-> 0, byDomain |-> 1, lookups |-> 1] : r \in loose}
      ELSE {FcNone(1)}

\* -------------------------------------------- contact: email status
\* s.replace(/\s+/g, "_")
\* (each run of white space gives one "_": its first character is
\* replaced, the others are dropped)
IsKept(c) == c # ""

ReplaceWhiteRuns(s) ==
  SelectSeq([i \in 1..Len(s) |->
               IF ~IsWhite(s[i]) THEN s[i]
               ELSE IF i > 1 /\ IsWhite(s[i - 1]) THEN "" ELSE "_"],
            IsKept)

Unavailable == <<"unavailable">>

\* outcomes [status, db]: status is the row used (NoRow for null), db the
\* target store after the call
findOrCreateEmailStatus(db, status, F) ==
  LET emailStatus == IF Falsy(status) THEN Unavailable ELSE toLowerCase(status)
      existing == {r \in db.contactEmailStatus : r.value = emailStatus}
      statusKey == ReplaceWhiteRuns(toLowerCase(emailStatus))
      newStatus == [value |-> emailStatus, key |-> statusKey]
      existingFallback == {r \in db.contactEmailStatus : r.value = Unavailable}
      newFallback == [value |-> Unavailable, key |-> Unavailable]
      Fallback ==
        IF "contactEmailStatus.findFirst.fallback" \in F
        THEN {[status |-> NoRow, db |-> db]}
        ELSE IF existingFallback # {}
        THEN {[status |-> r, db |-> db] : r \in existingFallback}
        ELSE IF "contactEmailStatus.create.fallback" \in F
        THEN {[status |-> NoRow, db |-> db]}
        ELSE {[status |-> newFallback,
               db |-> [db EXCEPT !.contactEmailStatus = @ \cup {newFallback}]]}
  IN
  IF "contactEmailStatus.findFirst" \in F THEN Fallback
  ELSE IF existing # {} THEN {[status |-> r, db |-> db] : r \in existing}
  ELSE IF "contactEmailStatus.create" \in F THEN Fallback
  ELSE {[status |-> newStatus,
         db |-> [db EXCEPT !.contactEmailStatus = @ \cup {newStatus}]]}

\* ------------------------------------------------- contact: one record
\* x?.substring(0, n)
OptSubstring(x, n) == IF x = NULL THEN NULL ELSE substring0(x, n)

\* x || y on strings
OrElse(x, y) == IF Falsy(x) THEN y ELSE x

\* Math.random().toString(36).substring(2, 8)
RandomStrs == {<<"r1">>, <<"r2">>}

\* email.split("@") has exactly two parts
AtPositions(e) == {i \in 1..Len(e) : e[i] = "@"}

\* the random string is put after the domain
ModifiedEmailAppended(contactEmail, randomStr) ==
  contactEmail \o <<"+">> \o randomStr

ModifiedEmail(contactEmail, randomStr) ==
  IF Cardinality(AtPositions(contactEmail)) = 1
  THEN LET at == CHOOSE i \in AtPositions(contactEmail) : TRUE
       IN SubSeq(contactEmail, 1, at - 1) \o <<"+">> \o randomStr \o <<"@">>
            \o SubSeq(contactEmail, at + 1, Len(contactEmail))
  ELSE contactEmail \o <<"+">> \o randomStr

\* the fields copied without the substring calls
newContactDataUntruncated(oldContact, normalizedId, company, emailStatus, contactEmail) ==
  [id |-> normalizedId,
   name |-> OrElse(oldContact.full_name,
              OrElse(trim(OrElse(oldContact.first_name, <<>>) \o <<" ">>
                            \o OrElse(oldContact.last_name, <<>>)),
                     <<"Unknown Contact">>)),
   job_title |-> OrElse(oldContact.title, <<"Unknown Title">>),
   company_id |-> company.id,
   email |-> contactEmail,
   first_name |-> oldContact.first_name,
   last_name |-> oldContact.last_name,
   full_name |-> oldContact.full_name,
   linkedin_url |-> oldContact.linkedin_url,
   title |-> oldContact.title,
   email_status |-> emailStatus.value,
   photo_url |-> oldContact.photo_url,
   seniority |-> oldContact.seniority,
   is_deleted |-> oldContact.isDeleted = TRUE]

newContactData(oldContact, normalizedId, company, emailStatus, contactEmail) ==
  [id |-> normalizedId,
   name |-> substring0(
              OrElse(oldContact.full_name,
                OrElse(trim(OrElse(oldContact.first_name, <<>>) \o <<" ">>
                              \o OrElse(oldContact.last_name, <<>>)),
                       <<"Unknown Contact">>)), 250),
   job_title |-> substring0(OrElse(oldContact.title, <<"Unknown Title">>), 250),
   company_id |-> company.id,
   email |-> contactEmail,
   first_name |-> OptSubstring(oldContact.first_name, 100),
   last_name |-> OptSubstring(oldContact.last_name, 100),
   full_name |-> OptSubstring(oldContact.full_name, 200),
   linkedin_url |-> OptSubstring(oldContact.linkedin_url, 500),
   title |-> OptSubstring(oldContact.title, 250),
   email_status |-> emailStatus.value,
   photo_url |-> OptSubstring(oldContact.photo_url, 500),
   seniority |-> OptSubstring(oldContact.seniority, 100),
   is_deleted |-> oldContact.isDeleted = TRUE]

\* contact.create: the row as stored, or the error the store raises
ContactCreate(db, data, F, code) ==
  IF "contact.create" \in F THEN [ok |-> FALSE, err |-> Err(code), db |-> db]
  ELSE IF \E r \in db.contact : r.id = CanonUuid(data.id)
  THEN [ok |-> FALSE, err |-> Err("P2002id"), db |-> db]
  ELSE IF data.email # NULL /\ \E r \in db.contact : r.email = data.email
  THEN [ok |-> FALSE, err |-> Err("P2002email"), db |-> db]
  ELSE [ok |-> TRUE, err |-> Err("none"),
        db |-> [db EXCEPT !.contact = @ \cup {[data EXCEPT !.id = CanonUuid(data.id)]}]]

\* the lookup compares the text of the id, as a text column would
ExistingContactByText(db, normalizedId) ==
  {r \in db.contact : r.id = normalizedId}

\* newPrisma.contact.findUnique({where: {id: normalizedId}})
ExistingContact(db, normalizedId) ==
  {r \in db.contact : r.id = CanonUuid(normalizedId)}

\* the email status reconciled before the company is checked
MissingCompanyAfterStatus(st, db, fc) ==
  [msg |-> "Failed", stats |-> Failed(st, "missingCompany"),
   db |-> [db EXCEPT !.contactEmailStatus =
                       @ \cup {[value |-> Unavailable, key |-> Unavailable]}],
   fc |-> fc]

\* if (!company): the record fails under missingCompany
MissingCompany(st, db, fc) ==
  [msg |-> "Failed", stats |-> Failed(st, "missingCompany"), db |-> db, fc |-> fc]

\* a catch that handles the two known codes and rethrows the rest
ContactCatchRethrow(st, db, err, fc) ==
  IF err.code = "P2002" /\ err.target = "email"
  THEN [msg |-> "Failed", stats |-> Failed(st, "duplicateEmail"), db |-> db, fc |-> fc]
  ELSE IF err.code = "P2000"
  THEN [msg |-> "Failed", stats |-> Failed(st, "dataValidation"), db |-> db, fc |-> fc]
  ELSE [msg |-> "Throw", stats |-> st, db |-> db, fc |-> fc]

\* the outer catch of migrateContact
ContactCatch(st, db, err, fc) ==
  [msg |-> IF (err.code = "P2002" /\ err.target = "email") \/ err.code = "P2000"
           THEN "Failed" ELSE "Error",
   stats |-> IF err.code = "P2002" /\ err.target = "email" THEN Failed(st, "duplicateEmail")
             ELSE IF err.code = "P2000" THEN Failed(st, "dataValidation")
             ELSE Failed(st, "other"),
   db |-> db, fc |-> fc]

\* outcomes [msg, stats, db, fc] of migrateContact(oldContact): msg is the
\* prefix of the returned line, fc what findCompany returned (FcNone(0) when
\* it was not called, FcNone(1) when it returned null)
migrateContact(st0, db, old, oldContact, F, code) ==
  LET st == [st0 EXCEPT !.total = @ + 1]
      normalizedId == normalizeUuid(oldContact.id)
  IN
  IF normalizedId = NULL
  THEN {[msg |-> "Failed", stats |-> Failed(st, "uuidFormat"), db |-> db,
         fc |-> FcNone(0)]}
  ELSE IF "contact.findUnique" \in F \/ ~IsUuidText(normalizedId)
  THEN IF code = "P2023" \/ ~IsUuidText(normalizedId)
       THEN {[msg |-> "Failed", stats |-> Failed(st, "uuidFormat"), db |-> db,
              fc |-> FcNone(0)]}
       ELSE {ContactCatch(st, db, Err(code), FcNone(0))}
  ELSE IF ExistingContact(db, normalizedId) # {}
  THEN {[msg |-> "Duplicate", stats |-> [st EXCEPT !.duplicates = @ + 1], db |-> db,
         fc |-> FcNone(0)]}
  ELSE
    UNION {
      LET st1 == [st EXCEPT !.companyMatches.byId = @ + fc.byId,
                            !.companyMatches.byDomain = @ + fc.byDomain]
      IN
      IF fc.company = NoRow
      THEN {MissingCompany(st1, db, fc)}
      ELSE
        UNION {
          IF es.status = NoRow
          THEN {[msg |-> "Failed", stats |-> Failed(st1, "emailStatusError"),
                 db |-> es.db, fc |-> fc]}
          ELSE
            LET conflict ==
                  /\ ~Falsy(oldContact.email)
                  /\ "contact.findFirst.email" \notin F
                  /\ \E r \in es.db.contact :
                        r.email = oldContact.email /\ r.id # CanonUuid(normalizedId)
                emails == IF conflict
                          THEN {ModifiedEmail(oldContact.email, rs) : rs \in RandomStrs}
                          ELSE {oldContact.email}
            IN
            { LET res == ContactCreate(es.db,
                           newContactData(oldContact, normalizedId, fc.company,
                                          es.status, contactEmail), F, code)
              IN IF res.ok
                 THEN [msg |-> "Success", stats |-> [st1 EXCEPT !.successful = @ + 1],
                       db |-> res.db, fc |-> fc]
                 ELSE ContactCatch(st1, es.db, res.err, fc) @@ [rejected |-> res.err]
              : contactEmail \in emails }
          : es \in findOrCreateEmailStatus(db, oldContact.email_status, F) }
      : fc \in findCompany(db, old, oldContact.companyId, F) }

\* ------------------------------------------------ position: job roles
IsLetter(c) == \E i \in 1..26 : LowerLetters[i] = c \/ UpperLetters[i] = c
IsWordChar(c) == c \in Digits \/ c = "_" \/ IsLetter(c)

normalizeTitle(title) ==
  trim(ReplaceWhiteRuns(
         SelectSeq(toLowerCase(title), LAMBDA c : IsWordChar(c) \/ IsWhite(c))))

\* SHA-256 of the normalised title (taken as collision free)
createTitleHash(normalizedTitle) == [sha256 |-> normalizedTitle]

GenericJobRole == <<"Generic job role">>

\* the fallback is tried after any error of the first create
IsAnyError(code) == TRUE

\* error.code === "P2000"
IsTooLong(code) == code = "P2000"

\* the error a jobRole.create threw: P2000 is "value too long for column"
CreateError(code) == IF code = "P2000" THEN "tooLong" ELSE "failed"

\* outcomes [role, db, creates] of findOrCreateJobRole(title, description);
\* creates lists the jobRole.create calls made and how each ended
findOrCreateJobRole(db, title, description, F, code) ==
  IF title = NULL THEN {[role |-> NoRow, db |-> db, creates |-> <<>>]}
  ELSE
    LET truncatedTitle == substring0(title, 200)
        normalizedTitle == substring0(normalizeTitle(truncatedTitle), 200)
        existing == {r \in db.jobRole : r.title_normalized = normalizedTitle}
        jobRoleDescription == OrElse(description, truncatedTitle \o <<" role">>)
        newJobRole == [id |-> GenId(db.nextId),
                       title_hash |-> createTitleHash(normalizedTitle),
                       title_display |-> truncatedTitle,
                       title_normalized |-> normalizedTitle,
                       role_description |-> substring0(jobRoleDescription, 500)]
        fallbackTitle == substring0(truncatedTitle, 100)
        fallbackNormalizedTitle == substring0(normalizeTitle(fallbackTitle), 100)
        fallbackJobRole == [id |-> GenId(db.nextId),
                            title_hash |-> createTitleHash(fallbackNormalizedTitle),
                            title_display |-> fallbackTitle,
                            title_normalized |-> fallbackNormalizedTitle,
                            role_description |-> GenericJobRole]
        Created(row, creates) ==
          [role |-> row,
           db |-> [db EXCEPT !.jobRole = @ \cup {row}, !.nextId = @ + 1],
           creates |-> creates]
    IN
    IF "jobRole.findFirst" \notin F /\ existing # {}
    THEN {[role |-> r, db |-> db, creates |-> <<>>] : r \in existing}
    ELSE IF "jobRole.create" \notin F THEN {Created(newJobRole, <<"ok">>)}
    ELSE IF IsTooLong(code)
         THEN IF "jobRole.create.fallback" \in F
              THEN {[role |-> NoRow, db |-> db,
                     creates |-> <<CreateError(code), CreateError(code)>>]}
              ELSE {Created(fallbackJobRole, <<CreateError(code), "ok">>)}
         ELSE {[role |-> NoRow, db |-> db, creates |-> <<CreateError(code)>>]}

\* ------------------------------------------------ position: one record
newPositionData(oldPosition, normalizedId, company, jobRole) ==
  [id |-> normalizedId,
   title |-> OrElse(oldPosition.position_title, <<"Untitled Position">>),
   description |-> OrElse(oldPosition.job_description, NULL),
   company_id |-> company.id,
   company_name |-> company.name,
   is_company_deleted |-> company.is_deleted,
   company_status |-> company.status,
   jd_description |-> OrElse(oldPosition.job_description, <<"No description available">>),
   jd_link |-> OrElse(oldPosition.link, <<"https://example.com">>),
   job_role_id |-> jobRole.id,
   is_deleted |-> oldPosition.isDeleted = TRUE]

\* newPrisma.position.findUnique({where: {id: normalizedId}})
ExistingPosition(db, normalizedId) ==
  {r \in db.position : r.id = CanonUuid(normalizedId)}

\* the outer catch of migratePosition
PositionCatch(st, db, fc) ==
  [msg |-> "Error", stats |-> Failed(st, "other"), db |-> db, fc |-> fc]

\* outcomes [msg, stats, db, fc] of migratePosition(oldPosition)
migratePosition(st0, db, old, oldPosition, F, code) ==
  LET st == [st0 EXCEPT !.total = @ + 1]
      normalizedId == normalizeUuid(oldPosition.id)
  IN
  IF normalizedId = NULL
  THEN {[msg |-> "Failed", stats |-> Failed(st, "uuidFormat"), db |-> db,
         fc |-> FcNone(0)]}
  ELSE IF "position.findUnique" \in F \/ ~IsUuidText(normalizedId)
  THEN IF code = "P2023" \/ ~IsUuidText(normalizedId)
       THEN {[msg |-> "Failed", stats |-> Failed(st, "uuidFormat"), db |-> db,
              fc |-> FcNone(0)]}
       ELSE {PositionCatch(st, db, FcNone(0))}
  ELSE IF ExistingPosition(db, normalizedId) # {}
  THEN {[msg |-> "Duplicate", stats |-> [st EXCEPT !.duplicates = @ + 1], db |-> db,
         fc |-> FcNone(0)]}
  ELSE
    UNION {
      LET st1 == [st EXCEPT !.companyMatches.byId = @ + fc.byId,
                            !.companyMatches.byDomain = @ + fc.byDomain]
      IN
      IF fc.company = NoRow
      THEN {MissingCompany(st1, db, fc)}
      ELSE
        { IF jr.role = NoRow
          THEN [msg |-> "Failed", stats |-> Failed(st1, "missingJobRole"),
                db |-> jr.db, fc |-> fc, creates |-> jr.creates]
          ELSE IF "position.create" \in F
          THEN [msg |-> "Failed", stats |-> Failed(st1, "dataValidation"),
                db |-> jr.db, fc |-> fc, rejected |-> Err(code),
                creates |-> jr.creates]
          ELSE [msg |-> "Success", stats |-> [st1 EXCEPT !.successful = @ + 1],
                db |-> [jr.db EXCEPT !.position = @ \cup
                          {[newPositionData(oldPosition, normalizedId, fc.company, jr.role)
                              EXCEPT !.id = CanonUuid(normalizedId)]}],
                fc |-> fc, creates |-> jr.creates]
          : jr \in findOrCreateJobRole(db, oldPosition.position_title,
                                       oldPosition.job_description, F, code) }
      : fc \in findCompany(db, old, oldPosition.companyId, F) }

\* ------------------------------------------------------------- leads
LEAD_STATUSES ==
  << [key |-> <<"new_lead">>, value |-> <<"New Lead">>],
     [key |-> <<"converted_to_company">>, value |-> <<"Converted to Company">>],
     [key |-> <<"in_progress">>, value |-> <<"In Progress">>],
     [key |-> <<"failed">>, value |-> <<"Failed">>] >>

DEFAULT_LEAD_STATUS == <<"new_lead">>

\* the pending flag tested before the stuck flag
determineLeadStatusPendingFirst(oldLead) ==
  IF oldLead.isPending THEN <<"in_progress">>
  ELSE IF oldLead.isStuck THEN <<"failed">>
  ELSE IF ~Falsy(oldLead.companyId) THEN <<"new_lead">>
  ELSE DEFAULT_LEAD_STATUS

determineLeadStatus(oldLead) ==
  IF oldLead.isStuck THEN <<"failed">>
  ELSE IF oldLead.isPending THEN <<"in_progress">>
  ELSE IF ~Falsy(oldLead.companyId) THEN <<"new_lead">>
  ELSE DEFAULT_LEAD_STATUS

\* companyInNewSchema is a company row or NoRow
\* the legacy reference is copied whether or not the company was found
transformLeadKeepReference(oldLead, status, companyInNewSchema) ==
  [id |-> oldLead.id,
   email |-> oldLead.email,
   company_id |-> oldLead.companyId,
   company_name |-> IF companyInNewSchema = NoRow THEN NULL ELSE companyInNewSchema.name,
   company_website |-> IF companyInNewSchema = NoRow THEN NULL
                       ELSE companyInNewSchema.website,
   status |-> status,
   is_pending |-> oldLead.isPending,
   is_stuck |-> oldLead.isStuck,
   is_deleted |-> oldLead.isDeleted]

transformLead(oldLead, status, companyInNewSchema) ==
  [id |-> oldLead.id,
   email |-> oldLead.email,
   company_id |-> IF companyInNewSchema = NoRow THEN NULL ELSE companyInNewSchema.id,
   company_name |-> IF companyInNewSchema = NoRow THEN NULL ELSE companyInNewSchema.name,
   company_website |-> IF companyInNewSchema = NoRow THEN NULL
                       ELSE companyInNewSchema.website,
   status |-> status,
   is_pending |-> oldLead.isPending,
   is_stuck |-> oldLead.isStuck,
   is_deleted |-> oldLead.isDeleted]

\* lead.create: unique id and unique email
LeadCreate(db, data, site, F, code) ==
  IF site \in F THEN [ok |-> FALSE, err |-> Err(code), db |-> db]
  ELSE IF ~IsUuidText(data.id) THEN [ok |-> FALSE, err |-> Err("P2023"), db |-> db]
  ELSE IF \E r \in db.lead : r.id = CanonUuid(data.id)
  THEN [ok |-> FALSE, err |-> Err("P2002id"), db |-> db]
  ELSE IF \E r \in db.lead : r.email = data.email
  THEN [ok |-> FALSE, err |-> Err("P2002email"), db |-> db]
  ELSE [ok |-> TRUE, err |-> Err("none"),
        db |-> [db EXCEPT !.lead = @ \cup {[data EXCEPT !.id = CanonUuid(data.id)]}]]

\* the catch of the per-lead try: a unique violation on email is "existing"
LeadCatch(counts, db, err) ==
  IF err.code = "P2002" /\ err.target = "email"
  THEN [msg |-> "Existing", counts |-> [counts EXCEPT !.existingCount = @ + 1],
        db |-> db]
  ELSE [msg |-> "Error", counts |-> [counts EXCEPT !.errorCount = @ + 1],
        db |-> db]

Counts0 == [successCount |-> 0, existingCount |-> 0, errorCount |-> 0]

\* newPrisma.lead.findUnique({where: {email: oldLead.email}})
ExistingLead(db, email) == {r \in db.lead : r.email = email}

\* the body of the loop of migrateOldLeads for one lead
migrateOldLead(counts, db, oldLead, F, code) ==
  IF "lead.findUnique" \in F THEN LeadCatch(counts, db, Err(code))
  ELSE IF ExistingLead(db, oldLead.email) # {}
  THEN [msg |-> "Existing", counts |-> [counts EXCEPT !.existingCount = @ + 1],
        db |-> db]
  ELSE
    LET status0 == determineLeadStatus(oldLead)
        lookup == ~Falsy(oldLead.companyId)
        found == IF lookup /\ IsUuidText(oldLead.companyId)
                 THEN {r \in db.company : r.id = CanonUuid(oldLead.companyId)}
                 ELSE {}
        companyInNewSchema == IF found = {} THEN NoRow ELSE CHOOSE r \in found : TRUE
        status == IF companyInNewSchema # NoRow THEN <<"converted_to_company">>
                  ELSE status0
        res == LeadCreate(db, transformLead(oldLead, status, companyInNewSchema),
                          "lead.create", F, code)
    IN
    IF lookup /\ "company.findUnique" \in F THEN LeadCatch(counts, db, Err(code))
    ELSE IF lookup /\ ~IsUuidText(oldLead.companyId)
    THEN LeadCatch(counts, db, Err("P2023"))
    ELSE IF res.ok
    THEN [msg |-> "Success", counts |-> [counts EXCEPT !.successCount = @ + 1],
          db |-> res.db]
    ELSE LeadCatch(counts, db, res.err) @@ [rejected |-> res.err]

\* Date.now() as read by generatePlaceholderEmail
Timestamps == {<<"t1">>, <<"t2">>}

generatePlaceholderEmail(company, timestamp) ==
  <<"noreply+">> \o timestamp \o <<"@">> \o toLowerCase(trim(company.domain))

\* the body of the loop of createLeadsForCompanies for one target company
createLeadForCompany(counts, db, company, timestamp, F, code) ==
  IF "lead.findFirst" \in F THEN LeadCatch(counts, db, Err(code))
  ELSE IF \E r \in db.lead : r.company_id = company.id
  THEN [msg |-> "Existing", counts |-> [counts EXCEPT !.existingCount = @ + 1],
        db |-> db]
  ELSE IF company.domain = NULL THEN LeadCatch(counts, db, Err("TypeError"))
  ELSE
    LET res == LeadCreate([db EXCEPT !.nextId = @ + 1],
                 [id |-> GenUuid(db.nextId),
                  email |-> generatePlaceholderEmail(company, timestamp),
                  company_id |-> company.id,
                  company_name |-> company.name,
                  company_website |-> company.website,
                  status |-> <<"converted_to_company">>,
                  is_pending |-> FALSE,
                  is_stuck |-> FALSE,
                  is_deleted |-> company.is_deleted],
                 "lead.create.company", F, code)
    IN IF res.ok
       THEN [msg |-> "Success", counts |-> [counts EXCEPT !.successCount = @ + 1],
             db |-> res.db]
       ELSE LeadCatch(counts, db, res.err) @@ [rejected |-> res.err]

\* nothing thrown by the status reconciliation
NoStatusError == [err |-> "none", at |-> 0, site |-> "none", injected |-> FALSE]

\* ensureLeadStatuses / ensureCompanyStatuses from statuses[i] on: each
\* status is looked up by key (findUnique) and created when no row has the
\* key.  The call named by site for statuses[failAt] throws code (failAt = 0:
\* no call is made to throw); where valueUnique, the store rejects a create
\* whose value another row holds (P2002).  Result: the status table and the
\* error that left the loop, with the status and the call it came from.
RECURSIVE ensureStatuses(_, _, _, _, _, _, _)
ensureStatuses(table, statuses, i, failAt, site, code, valueUnique) ==
  IF i > Len(statuses) THEN [table |-> table, thrown |-> NoStatusError]
  ELSE IF i = failAt /\ site = "findUnique"
  THEN [table |-> table,
        thrown |-> [err |-> code, at |-> i, site |-> "findUnique", injected |-> TRUE]]
  ELSE IF \E r \in table : r.key = statuses[i].key
  THEN ensureStatuses(table, statuses, i + 1, failAt, site, code, valueUnique)
  ELSE IF i = failAt
  THEN [table |-> table,
        thrown |-> [err |-> code, at |-> i, site |-> "create", injected |-> TRUE]]
  ELSE IF valueUnique /\ \E r \in table : r.value = statuses[i].value
  THEN [table |-> table,
        thrown |-> [err |-> "P2002", at |-> i, site |-> "create", injected |-> FALSE]]
  ELSE ensureStatuses(table \cup {statuses[i]}, statuses, i + 1, failAt, site, code,
                      valueUnique)

\* ---------------------------------------------------------- companies
DEFAULT_COMPANY_STATUS == <<"Potential Client">>

COMPANY_STATUSES ==
  << [key |-> <<"dh/contract_agreement_signed">>, value |-> <<"DH/Contract Agreement Signed">>],
     [key |-> <<"no_recruitment_services_required">>, value |-> <<"No Recruitment Services Required">>],
     [key |-> <<"potential_client">>, value |-> <<"Potential Client">>],
     [key |-> <<"client_inactive/not_responding">>, value |-> <<"Client Inactive/Not Responding">>],
     [key |-> <<"do_not_contact_email_received">>, value |-> <<"Do Not Contact Email Received">>],
     [key |-> <<"position_not_being_filled_by_recruiters">>, value |-> <<"Position Not Being Filled By Recruiters">>],
     [key |-> <<"client_backed_out">>, value |-> <<"Client Backed Out">>],
     [key |-> <<"dh/contract_agreement_sent">>, value |-> <<"DH/Contract Agreement Sent">>],
     [key |-> <<"clients_will_work_in_the_future">>, value |-> <<"Clients Will Work in the Future">>],
     [key |-> <<"not_happy_with_terms">>, value |-> <<"Not happy With Terms">>],
     [key |-> <<"pro-rated_refund_agreement">>, value |-> <<"Pro-Rated Refund Agreement">>],
     [key |-> <<"job_closed_internally">>, value |-> <<"Job Closed Internally">>],
     [key |-> <<"ready_to_dh_agreement">>, value |-> <<"Ready To DH Agreement">>],
     [key |-> <<"client_wants_refund_policy">>, value |-> <<"Client Wants Refund Policy">>],
     [key |-> <<"contract_terminated">>, value |-> <<"Contract Terminated">>] >>

\* The serialized raw_body is [kind, name, website_url]: kind "null" (no
\* value), "empty" (the empty string), "garbage" (text JSON.parse rejects)
\* or "json" (the text of an object with the given name and website_url,
\* NULL where the object lacks the key).  The parsed value is
\* [isNull, name, website_url].
ParsedNull == [isNull |-> TRUE, name |-> NULL, website_url |-> NULL]

parseRawBody(rawBodyStr) ==
  IF rawBodyStr.kind \in {"null", "empty"} THEN ParsedNull
  ELSE IF rawBodyStr.kind = "json"
       THEN [isNull |-> FALSE, name |-> rawBodyStr.name,
             website_url |-> rawBodyStr.website_url]
       ELSE ParsedNull

\* the status key where the status value is expected
determineCompanyStatusKey(oldCompany, rawBody) == <<"potential_client">>

determineCompanyStatus(oldCompany, rawBody) == DEFAULT_COMPANY_STATUS

transformCompany(oldCompany) ==
  LET rawBody == parseRawBody(oldCompany.raw_body)
      status == determineCompanyStatus(oldCompany, rawBody)
      name == OrElse(rawBody.name,
                     <<"Unknown Company (">> \o oldCompany.domain \o <<")">>)
      website == OrElse(rawBody.website_url, <<"http://">> \o oldCompany.domain)
  IN [id |-> oldCompany.id,
      name |-> name,
      website |-> website,
      domain |-> oldCompany.domain,
      status |-> status,
      is_deleted |-> oldCompany.isDeleted]

\* company.create in place of the upsert: an id already held is rejected
CompanyCreateOnly(db, data, F, code) ==
  IF "company.upsert" \in F THEN [ok |-> FALSE, err |-> Err(code), db |-> db]
  ELSE IF ~IsUuidText(data.id) THEN [ok |-> FALSE, err |-> Err("P2023"), db |-> db]
  ELSE IF \E r \in db.company : r.id = CanonUuid(data.id)
  THEN [ok |-> FALSE, err |-> Err("P2002id"), db |-> db]
  ELSE IF \E r \in db.company : r.domain = data.domain
  THEN [ok |-> FALSE, err |-> Err("P2002domain"), db |-> db]
  ELSE [ok |-> TRUE, err |-> Err("none"),
        db |-> [db EXCEPT !.company = @ \cup {[data EXCEPT !.id = CanonUuid(data.id)]}]]

\* company.upsert({where: {id}, update, create})
CompanyUpsert(db, data, F, code) ==
  IF "company.upsert" \in F THEN [ok |-> FALSE, err |-> Err(code), db |-> db]
  ELSE IF ~IsUuidText(data.id) THEN [ok |-> FALSE, err |-> Err("P2023"), db |-> db]
  ELSE
    LET row == [data EXCEPT !.id = CanonUuid(data.id)]
        others == {r \in db.company : r.id # row.id}
    IN IF \E r \in others : r.domain = row.domain
       THEN [ok |-> FALSE, err |-> Err("P2002domain"), db |-> db]
       ELSE [ok |-> TRUE, err |-> Err("none"),
             db |-> [db EXCEPT !.company = others \cup {row}]]

CompanyCatch(counts, db, err) ==
  IF err.code = "P2002" /\ err.target = "domain"
  THEN [msg |-> "Existing", counts |-> [counts EXCEPT !.existingCount = @ + 1],
        db |-> db]
  ELSE [msg |-> "Error", counts |-> [counts EXCEPT !.errorCount = @ + 1],
        db |-> db]

\* the body of the loop of migrateCompanies for one company
migrateCompany(counts, db, oldCompany, F, code) ==
  LET newCompany == transformCompany(oldCompany)
      existing == {r \in db.company : r.domain = newCompany.domain}
      res == CompanyUpsert(db, newCompany, F, code)
  IN
  IF "company.findUnique.domain" \in F THEN CompanyCatch(counts, db, Err(code))
  ELSE IF \E r \in existing : r.id # newCompany.id
  THEN [msg |-> "Existing", counts |-> [counts EXCEPT !.existingCount = @ + 1],
        db |-> db]
  ELSE IF res.ok
  THEN [msg |-> "Success", counts |-> [counts EXCEPT !.successCount = @ + 1],
        db |-> res.db]
  ELSE CompanyCatch(counts, db, res.err) @@ [rejected |-> res.err]

\* ------------------------------------------- source and target contents
IdOf(c) == Dashed(Rep(c, 32))

RawJson(name, website) == [kind |-> "json", name |-> name, website_url |-> website]
RawNone(kind) == [kind |-> kind, name |-> NULL, website_url |-> NULL]

OldCompany(id, domain, raw) ==
  [id |-> id, domain |-> domain, raw_body |-> raw, isDeleted |-> FALSE]

OldContact(id, companyId, email, emailStatus, fullName) ==
  [id |-> id, companyId |-> companyId, email |-> email, email_status |-> emailStatus,
   full_name |-> fullName, first_name |-> NULL, last_name |-> NULL, title |-> NULL,
   linkedin_url |-> NULL, photo_url |-> NULL, seniority |-> NULL, isDeleted |-> FALSE]

OldPosition(id, companyId, title) ==
  [id |-> id, companyId |-> companyId, position_title |-> title,
   job_description |-> NULL, link |-> <<"l">>, isDeleted |-> FALSE]

OldLead(id, email, companyId, stuck, pending) ==
  [id |-> id, email |-> email, companyId |-> companyId, isStuck |-> stuck,
   isPending |-> pending, isDeleted |-> FALSE]

NewCompany(id, domain, name) ==
  [id |-> id, name |-> name, website |-> <<"http://">> \o domain, domain |-> domain,
   status |-> DEFAULT_COMPANY_STATUS, is_deleted |-> FALSE]

DomE == <<"W","W","W",".","E",".","c">>
DomX == <<"x",".","c">>
DomQ == <<"q",".","c">>

\* a text of n characters, no two neighbours alike
Text(n) == [i \in 1..n |-> LowerLetters[(i % 26) + 1]]

\* a contact whose every text is one character longer than its column
LongContact ==
  [OldContact(IdOf("9"), Rep("B", 32), <<"l","@","x">>, NULL, Text(251)) EXCEPT
     !.first_name = Text(101), !.last_name = Text(101), !.title = Text(251),
     !.linkedin_url = Text(501), !.photo_url = Text(501), !.seniority = Text(101)]

\* a contact whose texts just fit, with a name put together from two parts
EdgeContact ==
  [OldContact(Rep("9", 24), Rep("B", 32), <<"e","@","x">>, NULL, NULL) EXCEPT
     !.first_name = Text(100), !.last_name = Text(150), !.title = Text(250),
     !.linkedin_url = Text(500), !.photo_url = Text(499), !.seniority = Text(100)]

\* the source stores the runs may face
OldDbs ==
  { [companies |->
       << OldCompany(IdOf("a"), DomE, RawJson(<<"A","c","m","e">>, <<"h","/","a">>)),
          OldCompany(IdOf("b"), DomX, RawNone("garbage")),
          OldCompany(Rep("c", 24), DomQ, RawNone("null")) >>,
     contacts |->
       << OldContact(IdOf("1"), IdOf("a"), <<"a","@","x">>, <<"V","e","r">>, <<"A","n","n">>),
          OldContact(Rep("d", 5), IdOf("a"), NULL, NULL, NULL),
          OldContact(Rep("2", 24), IdOf("b"), <<"b","@","x">>, NULL, NULL) >>,
     positions |->
       << OldPosition(Rep("3", 32), IdOf("a"), <<" ","D","e","v"," ","O","p","!">>),
          OldPosition(<<"n","o","-","i","d">>, IdOf("a"), <<"Q","A">>),
          OldPosition(Rep("4", 24), NULL, <<"Q","A">>) >>,
     leads |->
       << OldLead(IdOf("5"), <<"s","@","x">>, IdOf("a"), TRUE, TRUE),
          OldLead(IdOf("6"), <<"p","@","x">>, NULL, FALSE, TRUE),
          OldLead(IdOf("7"), <<"n","@","x">>, IdOf("b"), FALSE, FALSE) >>],
    [companies |->
       << OldCompany(IdOf("a"), DomE, RawJson(NULL, <<"h","/","a">>)),
          OldCompany(Rep("B", 32), DomX, RawNone("empty")) >>,
     contacts |->
       << OldContact(Rep("A", 32), Rep("B", 32), <<"a","@","x">>, <<"o","k">>, NULL),
          OldContact(IdOf("1"), <<"b","a","d">>, NULL, NULL, NULL),
          LongContact, EdgeContact >>,
     positions |->
       << OldPosition(Rep("D", 32), Rep("B", 32), <<"Q","A">>),
          OldPosition(IdOf("3"), <<"b","a","d">>, <<"q","a">>),
          OldPosition(IdOf("c"), Rep("B", 32), Text(101)),
          OldPosition(IdOf("e"), Rep("B", 32), Text(101)) >>,
     leads |->
       << OldLead(IdOf("5"), <<"s","@","x">>, IdOf("a"), TRUE, FALSE),
          OldLead(Rep("E", 32), <<"d","@","x">>, Rep("B", 32), FALSE, FALSE) >>] }

EmptyNewDb ==
  [company |-> {}, contact |-> {}, position |-> {}, lead |-> {},
   contactEmailStatus |-> {}, jobRole |-> {}, companyStatus |-> {},
   leadStatus |-> {}, nextId |-> 1]

\* the companies the target store may hold when the first run starts
NewCompanyTables ==
  { {},
    {NewCompany(IdOf("a"), <<"e",".","c">>, <<"A">>)},
    {NewCompany(IdOf("d"), <<"e",".","c">>, <<"D">>),
     NewCompany(IdOf("f"), DomX, <<"F">>)},
    {NewCompany(IdOf("d"), <<"E",".","C">>, <<"D">>),
     NewCompany(IdOf("e"), <<"m","e",".","c">>, <<"M">>)},
    {NewCompany(IdOf("e"), <<"m","e",".","c">>, <<"M">>),
     NewCompany(IdOf("b"), <<"X",".","c">>, <<"B">>)} }

\* a contact migrated earlier that holds the e-mail of a source contact
EarlierContact ==
  [id |-> IdOf("8"), name |-> <<"Old">>, job_title |-> <<"Unknown Title">>,
   company_id |-> IdOf("a"), email |-> <<"a","@","x">>, first_name |-> NULL,
   last_name |-> NULL, full_name |-> NULL, linkedin_url |-> NULL, title |-> NULL,
   email_status |-> Unavailable, photo_url |-> NULL, seniority |-> NULL,
   is_deleted |-> FALSE]

\* the status rows an earlier company run left with the companies it wrote
CompanyStatusRows == {COMPANY_STATUSES[i] : i \in 1..Len(COMPANY_STATUSES)}

\* status rows another tool wrote with the display value as the key
MistypedCompanyStatus ==
  [key |-> <<"Potential Client">>, value |-> <<"Potential Client">>]
MistypedLeadStatus == [key |-> <<"New Lead">>, value |-> <<"New Lead">>]

HasMistypedStatus(t) == \E r \in t : r.domain = <<"E",".","C">>

StatusRowsFor(t) ==
  IF t = {} THEN {}
  ELSE IF HasMistypedStatus(t)
  THEN {r \in CompanyStatusRows : r.value # MistypedCompanyStatus.value}
         \cup {MistypedCompanyStatus}
  ELSE CompanyStatusRows

LeadStatusRowsFor(t) == IF HasMistypedStatus(t) THEN {MistypedLeadStatus} ELSE {}

\* the targets the first run may face
NewDbs ==
  {[EmptyNewDb EXCEPT !.company = t, !.companyStatus = StatusRowsFor(t),
                      !.leadStatus = LeadStatusRowsFor(t)] :
     t \in NewCompanyTables}
    \cup {[EmptyNewDb EXCEPT
             !.company = {NewCompany(IdOf("a"), <<"e",".","c">>, <<"A">>)},
             !.companyStatus = CompanyStatusRows,
             !.contact = {EarlierContact},
             !.contactEmailStatus = {[value |-> Unavailable, key |-> Unavailable]}]}

\* ---------------------------------------------------------------- state
VARIABLES
  migrator,        \* the script the process runs
  oldDb,           \* source store
  newDb,           \* target store
  stats,           \* statistics ledger of the running script
  results,         \* successResults / duplicateResults / failureResults
  pc,              \* position of the script
  phase,           \* lead script: "old" (migrateOldLeads) or "company"
  fetched,         \* company / lead scripts: the list findMany() returned
  total,           \* totalContacts / totalPositions / list length
  skip,            \* loop variable of the batch loop
  page,            \* records of the current batch not yet processed
  processedCount,  \* processedCount of the contact / position scripts
  reported,        \* the final report has been printed
  abortedBy,       \* the call whose error ended the script early, or "none"
  exitCode,        \* "running", "0" or "1"
  disconnectError, \* $disconnect threw in the finally block
  run,             \* number of the current run
  faults,          \* store calls made to throw so far
  last,            \* what processing the most recent record did
  succeeded,       \* ids of the source records this run classified as success
  prev,            \* the previous run: its succeeded set and the target it left
  reconciled,      \* the error that ended the status reconciliation, if any
  calc,            \* identifier under conversion: input, stage and results
  source,          \* operations issued on oldPrisma in this run, and the
                   \* source store as the run found it
  runner           \* run-migrations.ts: where runMigrations stands, the
                   \* children it started and the answers it was given

vars == <<migrator, oldDb, newDb, stats, results, pc, phase, fetched, total, skip,
          page, processedCount, reported, abortedBy, exitCode, disconnectError,
          run, faults, last, succeeded, prev, reconciled, calc, source, runner>>

Migrators == {"company", "lead", "position", "contact"}
Paged == {"contact", "position"}

Stats0(m) ==
  CASE m = "contact" -> ContactStats0
    [] m = "position" -> PositionStats0
    [] m = "lead" -> [old |-> Counts0, company |-> Counts0]
    [] OTHER -> Counts0

Results0 == [success |-> <<>>, duplicate |-> <<>>, failure |-> <<>>]

ContactSites ==
  {"contact.findUnique", "company.findFirst.id", "companies.findUnique",
   "company.findFirst.domain", "company.findFirst.or",
   "contactEmailStatus.findFirst", "contactEmailStatus.create",
   "contactEmailStatus.findFirst.fallback", "contactEmailStatus.create.fallback",
   "contact.findFirst.email", "contact.create"}

PositionSites ==
  {"position.findUnique", "company.findFirst.id", "companies.findUnique",
   "company.findFirst.domain", "company.findFirst.or",
   "jobRole.findFirst", "jobRole.create", "jobRole.create.fallback",
   "position.create"}

OldLeadSites == {"lead.findUnique", "company.findUnique", "lead.create"}
CompanyLeadSites == {"lead.findFirst", "lead.create.company"}
CompanySites == {"company.findUnique.domain", "company.upsert"}

\* the sets of calls that may still be made to throw for one record
FaultSets(sites) == {F \in SUBSET sites : Cardinality(F) <= MaxFaults - faults}
CodesFor(F) == IF F = {} THEN {"P1001"} ELSE ErrorCodes

\* a title too long for its column fails the create and the fallback
\* create alike: one condition of the store
JobRoleTooLong == {"jobRole.create", "jobRole.create.fallback"}
FaultCost(F) == IF F = JobRoleTooLong THEN 1 ELSE Cardinality(F)
CanFault == faults < MaxFaults

\* nothing processed yet in this run
NoLast == [msg |-> "none"]

\* one call oldPrisma.<table>.<op>(...)
SourceOp(table, op) == [table |-> table, op |-> op]

\* no call on oldPrisma yet; old is the source store the run starts from
SourceLog0(old) == [ops |-> {}, start |-> old]

\* the calls one findCompany(oldCompanyId) makes on oldPrisma: the legacy
\* company is read when the reference is not empty and the lookup by id in
\* the target neither threw nor found a row
findCompanySourceOps(db, oldCompanyId, F) ==
  IF Falsy(oldCompanyId) THEN {}
  ELSE
    LET normalizedId == normalizeUuid(oldCompanyId)
    IN IF normalizedId = NULL THEN {SourceOp("companies", "findUnique")}
       ELSE IF "company.findFirst.id" \in F THEN {}
       ELSE IF \E r \in db.company : r.id = CanonUuid(normalizedId) THEN {}
       ELSE {SourceOp("companies", "findUnique")}

\* a "move": the source row of a record that was written is deleted
SourceAfterRecordMoved(old, table, rec, msg) ==
  IF msg = "Success"
  THEN [old EXCEPT ![table] = SelectSeq(@, LAMBDA r : r.id # rec.id)]
  ELSE old

\* the source store after the per-record function has run for rec of the
\* given source table: none of its statements writes through oldPrisma
SourceAfterRecord(old, table, rec, msg) == old

\* no identifier is under conversion
NoCalc == [stage |-> "none"]

\* the script was started by hand, not by run-migrations.ts
NoRunner == [at |-> "none"]

Init ==
  /\ migrator \in Migrators
  /\ oldDb \in OldDbs
  /\ newDb \in NewDbs
  /\ stats = Stats0(migrator)
  /\ results = Results0
  /\ pc = "start"
  /\ phase = "old"
  /\ fetched = <<>>
  /\ total = 0
  /\ skip = 0
  /\ page = <<>>
  /\ processedCount = 0
  /\ reported = FALSE
  /\ abortedBy = "none"
  /\ exitCode = "running"
  /\ disconnectError = FALSE
  /\ run = 1
  /\ faults = 0
  /\ last = NoLast
  /\ succeeded = {}
  /\ prev = [success |-> {}, db |-> newDb]
  /\ reconciled = NoStatusError
  /\ calc = NoCalc
  /\ source = SourceLog0(oldDb)
  /\ runner = NoRunner

SourceTable == IF migrator = "contact" THEN oldDb.contacts ELSE oldDb.positions

\* the source table the running script migrates
SourceName ==
  CASE migrator = "contact" -> "contacts"
    [] migrator = "position" -> "positions"
    [] migrator = "lead" -> "leads"
    [] OTHER -> "companies"

\* the catch of migrateContacts / migratePositions / migrateLeads /
\* migrateCompanies: the error is logged and the function returns
Abort(call) ==
  /\ pc' = "aborted"
  /\ abortedBy' = call
  /\ page' = <<>>

\* migrateContacts / migratePositions up to the batch loop: reset the
\* statistics and count the source table
StartPaged ==
  /\ pc = "start" /\ migrator \in Paged
  /\ stats' = Stats0(migrator)
  /\ results' = Results0
  /\ \/ /\ pc' = "loop"
        /\ total' = Len(SourceTable)
        /\ skip' = 0
        /\ processedCount' = 0
        /\ UNCHANGED <<faults, page, abortedBy>>
     \/ /\ CanFault
        /\ Abort("count")
        /\ faults' = faults + 1
        /\ UNCHANGED <<total, skip, processedCount>>
  /\ source' = [source EXCEPT !.ops = @ \cup {SourceOp(SourceName, "count")}]
  /\ UNCHANGED <<runner, calc, reconciled, migrator, oldDb, newDb, phase, fetched, reported, exitCode, disconnectError, run,
                 last, succeeded, prev>>

\* the page ends one record late
findManyInclusive(table, skipped, take) ==
  SubSeq(table, skipped + 1, Min(skipped + take + 1, Len(table)))

\* findMany({skip, take}) on a table listed in a stable order
findMany(table, skipped, take) ==
  SubSeq(table, skipped + 1, Min(skipped + take, Len(table)))

\* one evaluation of the loop condition and the findMany({skip, take})
FetchPage ==
  /\ pc = "loop" /\ migrator \in Paged /\ skip < total
  /\ \/ /\ pc' = "batch"
        /\ page' = findMany(SourceTable, skip, BatchSize)
        /\ UNCHANGED <<faults, abortedBy>>
     \/ /\ CanFault
        /\ Abort("findMany")
        /\ faults' = faults + 1
  /\ source' = [source EXCEPT !.ops = @ \cup {SourceOp(SourceName, "findMany")}]
  /\ UNCHANGED <<runner, calc, reconciled, migrator, oldDb, newDb, stats, results, phase, fetched, total, skip,
                 processedCount, reported, exitCode, disconnectError, run, last, succeeded, prev>>

\* the failure counter a record raised, "none" if it raised none
CategoryOf(before, after) ==
  IF \E k \in DOMAIN before.failures : after.failures[k] > before.failures[k]
  THEN CHOOSE k \in DOMAIN before.failures : after.failures[k] > before.failures[k]
  ELSE "none"

EntityRows(db) ==
  Cardinality(db.company) + Cardinality(db.contact) + Cardinality(db.position)
    + Cardinality(db.lead)
LookupRows(db) ==
  Cardinality(db.contactEmailStatus) + Cardinality(db.jobRole)
    + Cardinality(db.companyStatus) + Cardinality(db.leadStatus)

\* the unique field on which the store rejected the entity write of the
\* step (error.meta.target of a P2002), "none" when it rejected none
Rejected(out) ==
  IF "rejected" \in DOMAIN out /\ out.rejected.code = "P2002"
  THEN out.rejected.target
  ELSE "none"

\* the jobRole.create calls of the step and how each ended
Creates(out) == IF "creates" \in DOMAIN out THEN out.creates ELSE <<>>

\* what the step that processes rec does: the line it returns (msg), the
\* failure counter it raises (cat), whether a store call threw (faulted),
\* what findCompany returned (fc), the unique field its write collided on
\* (rejected), its jobRole.create calls (creates), and the target and
\* ledger it started from
Entry(rec, msg, cat, F, fc, rejected, creates) ==
  [run |-> run, phase |-> phase, rec |-> rec, msg |-> msg, cat |-> cat,
   faulted |-> F # {}, fc |-> fc, rejected |-> rejected, creates |-> creates,
   before |-> newDb, stats0 |-> stats]

\* result.startsWith("Success") / ("Duplicate") / else
Categorize(res, id, msg) ==
  IF msg = "Success" THEN [res EXCEPT !.success = Append(@, id)]
  ELSE IF msg = "Duplicate" THEN [res EXCEPT !.duplicate = Append(@, id)]
  ELSE [res EXCEPT !.failure = Append(@, id)]

\* an exception that leaves the per-record function reaches the catch of
\* the script (out.msg = "Throw"); otherwise the loop goes on
PagedStep(rec, F, out) ==
  /\ stats' = out.stats
  /\ newDb' = out.db
  /\ last' = Entry(rec, out.msg, CategoryOf(stats, out.stats), F, out.fc,
                   Rejected(out), Creates(out))
  /\ faults' = faults + FaultCost(F)
  /\ IF out.msg = "Throw"
     THEN /\ Abort("record")
          /\ UNCHANGED <<results, processedCount, succeeded>>
     ELSE /\ results' = Categorize(results, rec.id, out.msg)
          /\ processedCount' = processedCount + 1
          /\ succeeded' = IF out.msg = "Success" THEN succeeded \cup {rec.id}
                          ELSE succeeded
          /\ page' = Tail(page)
          /\ UNCHANGED <<pc, abortedBy>>
  /\ source' = [source EXCEPT !.ops = @ \cup
                   (IF out.fc.lookups = 0 THEN {}
                    ELSE findCompanySourceOps(newDb, rec.companyId, F))]
  /\ oldDb' = SourceAfterRecord(oldDb, SourceName, rec, out.msg)
  /\ UNCHANGED <<runner, calc, reconciled, migrator, phase, fetched, total, skip, reported,
                 exitCode, disconnectError, run, prev>>

MigrateContact ==
  /\ pc = "batch" /\ migrator = "contact" /\ page # <<>>
  /\ \E F \in FaultSets(ContactSites) : \E code \in CodesFor(F) :
       \E out \in migrateContact(stats, newDb, oldDb, Head(page), F, code) :
         PagedStep(Head(page), F, out)

MigratePosition ==
  /\ pc = "batch" /\ migrator = "position" /\ page # <<>>
  /\ \E F \in FaultSets(PositionSites) \cup (IF CanFault THEN {JobRoleTooLong} ELSE {}) :
     \E code \in CodesFor(F) :
       \E out \in migratePosition(stats, newDb, oldDb, Head(page), F, code) :
         PagedStep(Head(page), F, out)

\* end of the inner for loop: skip += batchSize
NextBatch ==
  /\ pc = "batch" /\ page = <<>>
  /\ pc' = "loop"
  /\ skip' = skip + BatchSize
  /\ UNCHANGED <<runner, source, calc, reconciled, migrator, oldDb, newDb, stats, results, phase, fetched, total, page,
                 processedCount, reported, abortedBy, exitCode, disconnectError, run, faults, last,
                 succeeded, prev>>

\* the report printed after the batch loop of the contact / position script
ReportPaged ==
  /\ pc = "loop" /\ migrator \in Paged /\ skip >= total
  /\ reported' = TRUE
  /\ pc' = "done"
  /\ UNCHANGED <<runner, source, calc, reconciled, migrator, oldDb, newDb, stats, results, phase, fetched, total, skip,
                 page, processedCount, abortedBy, exitCode, disconnectError, run, faults, last,
                 succeeded, prev>>

\* --------------------------------------------- company and lead scripts
StatusList == IF migrator = "company" THEN COMPANY_STATUSES ELSE LEAD_STATUSES
StatusTable(db) == IF migrator = "company" THEN db.companyStatus ELSE db.leadStatus
WithStatusTable(db, t) ==
  IF migrator = "company" THEN [db EXCEPT !.companyStatus = t]
  ELSE [db EXCEPT !.leadStatus = t]

\* the errors a call of the status reconciliation is made to throw
StatusErrorCodes == {"P1001", "P2002"}
StatusSites == {"findUnique", "create"}

\* companyStatus.value is a unique column (it is looked up with findUnique)
ValueUnique == migrator = "company"

\* what the reconciliation may do with the faults still allowed
EnsureOutcomes ==
  {ensureStatuses(StatusTable(newDb), StatusList, 1, 0, "none", "none", ValueUnique)}
    \cup (IF CanFault
          THEN {ensureStatuses(StatusTable(newDb), StatusList, 1, failAt, site, code,
                               ValueUnique) :
                  failAt \in 1..Len(StatusList), site \in StatusSites,
                  code \in StatusErrorCodes}
          ELSE {})

\* ensureCompanyStatuses / ensureLeadStatuses, first statement of the try of
\* migrateCompanies / migrateLeads: an error it rethrows reaches the catch
\* of the script
EnsureStatuses ==
  /\ pc = "start" /\ migrator \notin Paged
  /\ \E res \in EnsureOutcomes :
       /\ newDb' = WithStatusTable(newDb, res.table)
       /\ reconciled' = res.thrown
       /\ faults' = faults + (IF res.thrown.injected THEN 1 ELSE 0)
       /\ IF res.thrown.err = "none"
          THEN pc' = "fetch" /\ UNCHANGED <<page, abortedBy>>
          ELSE Abort("statuses")
  /\ UNCHANGED <<runner, source, calc, migrator, oldDb, stats, results, phase, fetched, total, skip,
                 processedCount, reported, exitCode, disconnectError, run, last, succeeded, prev>>

\* the orders in which findMany() may list a table
Orderings(S) ==
  {f \in [1..Cardinality(S) -> S] : \A i, j \in 1..Cardinality(S) : f[i] = f[j] => i = j}

\* oldPrisma.companies.findMany() / oldPrisma.leads.findMany() /
\* newPrisma.company.findMany()
FetchAll ==
  /\ pc = "fetch"
  /\ \/ /\ fetched' \in
             IF migrator = "company" THEN {oldDb.companies}
             ELSE IF phase = "old" THEN {oldDb.leads}
             ELSE Orderings(newDb.company)
        /\ total' = Len(fetched')
        /\ skip' = 0
        /\ pc' = "loop"
        /\ UNCHANGED <<faults, page, abortedBy>>
     \/ /\ CanFault
        /\ Abort("findMany")
        /\ faults' = faults + 1
        /\ UNCHANGED <<fetched, total, skip>>
  /\ source' = IF migrator = "lead" /\ phase = "company" THEN source
               ELSE [source EXCEPT !.ops = @ \cup {SourceOp(SourceName, "findMany")}]
  /\ UNCHANGED <<runner, calc, reconciled, migrator, oldDb, newDb, stats, results, phase, processedCount,
                 reported, exitCode, disconnectError, run, last, succeeded, prev>>

\* batch = list.slice(i, i + batchSize)
Slice ==
  /\ pc = "loop" /\ migrator \notin Paged /\ skip < total
  /\ page' = SubSeq(fetched, skip + 1, Min(skip + BatchSize, Len(fetched)))
  /\ pc' = "batch"
  /\ UNCHANGED <<runner, source, calc, reconciled, migrator, oldDb, newDb, stats, results, phase, fetched, total, skip,
                 processedCount, reported, abortedBy, exitCode, disconnectError, run, faults, last,
                 succeeded, prev>>

ListStep(rec, F, out, stats2) ==
  /\ stats' = stats2
  /\ newDb' = out.db
  /\ last' = Entry(rec, out.msg, out.msg, F, FcNone(0), Rejected(out), <<>>)
  /\ faults' = faults + Cardinality(F)
  /\ IF out.msg = "Throw"
     THEN /\ Abort("record")
          /\ UNCHANGED succeeded
     ELSE /\ succeeded' = IF out.msg = "Success" /\ phase = "old"
                          THEN succeeded \cup {rec.id} ELSE succeeded
          /\ page' = Tail(page)
          /\ UNCHANGED <<pc, abortedBy>>
  /\ oldDb' = IF phase = "company" THEN oldDb
              ELSE SourceAfterRecord(oldDb, SourceName, rec, out.msg)
  /\ UNCHANGED <<runner, source, calc, reconciled, migrator, results, phase, fetched, total, skip,
                 processedCount, reported, exitCode, disconnectError, run, prev>>

MigrateCompany ==
  /\ pc = "batch" /\ migrator = "company" /\ page # <<>>
  /\ \E F \in FaultSets(CompanySites) : \E code \in CodesFor(F) :
       LET out == migrateCompany(stats, newDb, Head(page), F, code)
       IN ListStep(Head(page), F, out, out.counts)

MigrateOldLead ==
  /\ pc = "batch" /\ migrator = "lead" /\ phase = "old" /\ page # <<>>
  /\ \E F \in FaultSets(OldLeadSites) : \E code \in CodesFor(F) :
       LET out == migrateOldLead(stats.old, newDb, Head(page), F, code)
       IN ListStep(Head(page), F, out, [stats EXCEPT !.old = out.counts])

CreateLeadForCompany ==
  /\ pc = "batch" /\ migrator = "lead" /\ phase = "company" /\ page # <<>>
  /\ \E F \in FaultSets(CompanyLeadSites) : \E code \in CodesFor(F) :
       \E timestamp \in Timestamps :
         LET out == createLeadForCompany(stats.company, newDb, Head(page),
                                         timestamp, F, code)
         IN ListStep(Head(page), F, out, [stats EXCEPT !.company = out.counts])

\* migrateOldLeads returns, createLeadsForCompanies starts
NextPhase ==
  /\ pc = "loop" /\ migrator = "lead" /\ phase = "old" /\ skip >= total
  /\ phase' = "company"
  /\ pc' = "fetch"
  /\ UNCHANGED <<runner, source, calc, reconciled, migrator, oldDb, newDb, stats, results, fetched, total, skip, page,
                 processedCount, reported, abortedBy, exitCode, disconnectError, run, faults, last,
                 succeeded, prev>>

\* the results printed by migrateCompanies / migrateLeads after the loops
ReportList ==
  /\ pc = "loop" /\ skip >= total
  /\ migrator = "company" \/ (migrator = "lead" /\ phase = "company")
  /\ reported' = TRUE
  /\ pc' = "done"
  /\ UNCHANGED <<runner, source, calc, reconciled, migrator, oldDb, newDb, stats, results, phase, fetched, total, skip,
                 page, processedCount, abortedBy, exitCode, disconnectError, run, faults, last,
                 succeeded, prev>>

\* --------------------------------------------------------- process exit
\* The function of the script has returned (its own catch swallowed any
\* error); the finally block disconnects and the caller exits: with 0
\* through .then, with 1 through .catch when $disconnect throws.
Exit ==
  /\ pc \in {"done", "aborted"}
  /\ \/ exitCode' = "0" /\ faults' = faults /\ disconnectError' = FALSE
     \/ CanFault /\ exitCode' = "1" /\ faults' = faults + 1 /\ disconnectError' = TRUE
  /\ pc' = "exited"
  /\ UNCHANGED <<runner, source, calc, reconciled, migrator, oldDb, newDb, stats, results, phase, fetched, total, skip,
                 page, processedCount, reported, abortedBy, run, last, succeeded, prev>>

\* the operator runs the same script again: a new process, fresh module state
Rerun ==
  /\ pc = "exited" /\ run < MaxRuns
  /\ run' = run + 1
  /\ pc' = "start"
  /\ stats' = Stats0(migrator)
  /\ results' = Results0
  /\ phase' = "old"
  /\ fetched' = <<>>
  /\ total' = 0
  /\ skip' = 0
  /\ page' = <<>>
  /\ processedCount' = 0
  /\ reported' = FALSE
  /\ abortedBy' = "none"
  /\ exitCode' = "running"
  /\ disconnectError' = FALSE
  /\ last' = NoLast
  /\ succeeded' = {}
  /\ prev' = [success |-> succeeded, db |-> newDb]
  /\ reconciled' = NoStatusError
  /\ source' = SourceLog0(oldDb)
  /\ UNCHANGED <<runner, calc, migrator, oldDb, newDb, faults>>

Next ==
  \/ StartPaged
  \/ FetchPage
  \/ MigrateContact
  \/ MigratePosition
  \/ NextBatch
  \/ ReportPaged
  \/ EnsureStatuses
  \/ FetchAll
  \/ Slice
  \/ MigrateCompany
  \/ MigrateOldLead
  \/ CreateLeadForCompany
  \/ NextPhase
  \/ ReportList
  \/ Exit
  \/ Rerun

Spec == Init /\ [][Next]_vars

TypeOK ==
  /\ migrator \in Migrators
  /\ pc \in {"start", "fetch", "loop", "batch", "done", "aborted", "exited"}
  /\ exitCode \in {"running", "0", "1"}
  /\ faults \in 0..MaxFaults
  /\ run \in 1..MaxRuns

\* ------------------------------------------- identifier conversion alone
\* normalizeUuid and ensureValidUuid applied to one identifier text
HexLower == <<"0","1","2","3","4","5","6","7","8","9","a","b","c","d","e","f">>
HexUpper == <<"0","1","2","3","4","5","6","7","8","9","A","B","C","D","E","F">>

\* s with a dash put after each of its first i characters, i in P
RECURSIVE WithDashesFrom(_, _, _)
WithDashesFrom(s, P, i) ==
  IF i > Len(s) THEN <<>>
  ELSE <<s[i]>> \o (IF i \in P THEN <<"-">> ELSE <<>>) \o WithDashesFrom(s, P, i + 1)

WithDashes(s, P) ==
  (IF 0 \in P THEN <<"-">> ELSE <<>>) \o WithDashesFrom(s, P, 1)

\* the sets of at most k places in 0..n
RECURSIVE DashSets(_, _)
DashSets(n, k) ==
  IF k = 0 THEN {{}}
  ELSE LET S == DashSets(n, k - 1)
       IN S \cup {P \cup {i} : P \in S, i \in 0..n}

\* identifiers without dashes: 32 and 24 hex characters in either case
Hex32s == {HexLower \o HexLower, HexUpper \o HexLower, HexUpper \o HexUpper}
Hex24s == {SubSeq(HexLower \o HexLower, 1, 24), SubSeq(HexUpper \o HexUpper, 1, 24)}

\* texts that are no identifier, and the absent identifier
NotIds ==
  {<<>>, <<"-">>, <<"n","o","-","i","d">>,
   SubSeq(HexLower \o HexLower, 1, 31), HexLower \o HexLower \o <<"0">>,
   SubSeq(HexLower \o HexLower, 1, 23), SubSeq(HexLower \o HexLower, 1, 25),
   SubSeq(HexLower \o HexLower, 1, 31) \o <<"g">>,
   SubSeq(HexLower \o HexLower, 1, 23) \o <<"Z">>,
   SubSeq(HexLower \o HexLower, 1, 16), Dashed(SubSeq(HexLower \o HexLower, 1, 31) \o <<"g">>)}

IdInputs ==
  {WithDashes(h, P) : h \in Hex32s, P \in DashSets(32, MaxDashes)}
    \cup {Dashed(h) : h \in Hex32s}
    \cup {WithDashes(h, P) : h \in Hex24s, P \in DashSets(24, MaxDashes)}
    \cup NotIds \cup {NULL}

\* the variables of the migration scripts
scriptVars == <<migrator, oldDb, newDb, stats, results, pc, phase, fetched, total, skip,
                page, processedCount, reported, abortedBy, exitCode, disconnectError,
                run, faults, last, succeeded, prev, reconciled, source>>

\* no migration script is running
ScriptsIdle ==
  /\ migrator = "none"
  /\ oldDb = [companies |-> <<>>, contacts |-> <<>>, positions |-> <<>>, leads |-> <<>>]
  /\ newDb = EmptyNewDb
  /\ stats = Counts0
  /\ results = Results0
  /\ pc = "none"
  /\ phase = "old"
  /\ fetched = <<>>
  /\ total = 0
  /\ skip = 0
  /\ page = <<>>
  /\ processedCount = 0
  /\ reported = FALSE
  /\ abortedBy = "none"
  /\ exitCode = "running"
  /\ disconnectError = FALSE
  /\ run = 1
  /\ faults = 0
  /\ last = NoLast
  /\ succeeded = {}
  /\ prev = [success |-> {}, db |-> EmptyNewDb]
  /\ reconciled = NoStatusError
  /\ source = SourceLog0(oldDb)

UuidInit ==
  /\ calc \in {[stage |-> "input", id |-> id, normalized |-> NULL, warned |-> FALSE,
                 redashed |-> NULL] : id \in IdInputs}
  /\ ScriptsIdle
  /\ runner = NoRunner

\* const normalizedId = normalizeUuid(id)
Normalize ==
  /\ calc.stage = "input"
  /\ calc' = [calc EXCEPT !.stage = "normalized",
                          !.normalized = normalizeUuid(calc.id),
                          !.warned = normalizeUuidWarns(calc.id)]
  /\ UNCHANGED <<scriptVars, runner>>

\* ensureValidUuid applied to what the normaliser returned
Redash ==
  /\ calc.stage = "normalized"
  /\ \E v \in ensureValidUuid(calc.normalized) :
       calc' = [calc EXCEPT !.stage = "redashed", !.redashed = v]
  /\ UNCHANGED <<scriptVars, runner>>

\* ensureValidUuid applied to the identifier as it was read
EnsureValid ==
  /\ calc.stage = "input"
  /\ \E v \in ensureValidUuid(calc.id) :
       calc' = [calc EXCEPT !.stage = "ensured", !.redashed = v]
  /\ UNCHANGED <<scriptVars, runner>>

UuidNext == Normalize \/ Redash \/ EnsureValid

UuidSpec == UuidInit /\ [][UuidNext]_vars


\* ------------------------------------------------ title normalisation alone
\* normalizeTitle applied to one job title
TitleChars == {"a", "P", " ", "\t", "/", "_", "1"}

RECURSIVE TitlesUpTo(_)
TitlesUpTo(n) ==
  IF n = 0 THEN {<<>>}
  ELSE LET shorter == TitlesUpTo(n - 1)
       IN shorter \cup {Append(t, c) : t \in {u \in shorter : Len(u) = n - 1},
                                       c \in TitleChars}

\* { input: "  Project Manager  ", expected: "project_manager" }
ProjectManagerInput ==
  <<" ", " ", "P", "r", "o", "j", "e", "c", "t", " ",
    "M", "a", "n", "a", "g", "e", "r", " ", " ">>
ProjectManagerExpected ==
  <<"p", "r", "o", "j", "e", "c", "t", "_", "m", "a", "n", "a", "g", "e", "r">>

TitleInputs == TitlesUpTo(MaxTitleLen) \cup {ProjectManagerInput}

TitleInit ==
  /\ calc \in {[stage |-> "title", title |-> t, normalized |-> NULL,
                 ofTrimmed |-> NULL] : t \in TitleInputs}
  /\ ScriptsIdle
  /\ runner = NoRunner

\* const result = normalizeTitle(input)
NormalizeTitle ==
  /\ calc.stage = "title"
  /\ calc' = [calc EXCEPT !.stage = "normalized",
                          !.normalized = normalizeTitle(calc.title)]
  /\ UNCHANGED <<scriptVars, runner>>

\* normalizeTitle of the same title without the white space around it
NormalizeTrimmed ==
  /\ calc.stage = "normalized"
  /\ calc' = [calc EXCEPT !.stage = "both",
                          !.ofTrimmed = normalizeTitle(trim(calc.title))]
  /\ UNCHANGED <<scriptVars, runner>>

TitleNext == NormalizeTitle \/ NormalizeTrimmed

TitleSpec == TitleInit /\ [][TitleNext]_vars

\* ------------------------------------------------- run-migrations.ts
\* runMigrations as the steps between its awaits: the call of exec, the
\* close event of the child, and the two readline answers
migrations == <<"company", "lead", "position", "contact">>

\* what the operator may type at a prompt
Answers ==
  {<<"y">>, <<"Y">>, <<"y", "e", "s">>, <<"Y", "e", "s">>, <<"n">>, <<"n", "o">>,
   <<>>, <<" ", "y">>}

\* the code of the close event; "null" when the child was killed
ExitCodes == {"0", "1", "null"}

\* every answer but "n" is taken as a yes
AcceptedUnlessNo(answer) == toLowerCase(answer) # <<"n">>

\* answer.toLowerCase() === "y" || answer.toLowerCase() === "yes"
Accepted(answer) ==
  toLowerCase(answer) = <<"y">> \/ toLowerCase(answer) = <<"y", "e", "s">>

\* runMigrations is called
Runner0 == [at |-> "start", i |-> 1, started |-> <<>>, running |-> {}]

\* runMigration(migrations[i].path): exec starts the child; answer is the
\* answer to its "Proceed" prompt (NULL: not asked), alive the children
\* that have not closed
runMigration(r, answer) ==
  [r EXCEPT !.at = "child",
            !.started = Append(@, [name |-> migrations[r.i], answer |-> answer,
                                   alive |-> r.running]),
            !.running = @ \cup {migrations[r.i]}]

\* the loop goes to migrations[i]: the "Proceed" prompt is shown, or the
\* loop is over and the readline interface is closed
Iterate(r, i) ==
  IF i > Len(migrations) THEN [r EXCEPT !.at = "done", !.i = i]
  ELSE [r EXCEPT !.at = "proceed", !.i = i]

\* first pass of the loop: i = 0, no prompt
RunCompany ==
  /\ runner.at = "start"
  /\ runner' = runMigration(runner, NULL)
  /\ UNCHANGED <<scriptVars, calc>>

\* process.on("close"): code 0 resolves and the loop goes on, any other
\* code rejects and the operator is asked whether to continue
ChildClose ==
  /\ runner.at = "child"
  /\ \E code \in ExitCodes :
       LET r == [runner EXCEPT !.running = @ \ {migrations[runner.i]}]
       IN runner' = IF code = "0" THEN Iterate(r, r.i + 1)
                    ELSE [r EXCEPT !.at = "continue"]
  /\ UNCHANGED <<scriptVars, calc>>

\* the answer to "Proceed with <name>? (y/n)"
AnswerProceed ==
  /\ runner.at = "proceed"
  /\ \E answer \in Answers :
       runner' = IF Accepted(answer) THEN runMigration(runner, answer)
                 ELSE Iterate(runner, runner.i + 1)
  /\ UNCHANGED <<scriptVars, calc>>

\* the answer to "Continue with the next migration despite the error?"
AnswerContinue ==
  /\ runner.at = "continue"
  /\ \E answer \in Answers :
       runner' = IF Accepted(answer) THEN Iterate(runner, runner.i + 1)
                 ELSE [runner EXCEPT !.at = "done"]
  /\ UNCHANGED <<scriptVars, calc>>

RunnerInit ==
  /\ runner = Runner0
  /\ calc = NoCalc
  /\ ScriptsIdle

RunnerNext == RunCompany \/ ChildClose \/ AnswerProceed \/ AnswerContinue

RunnerSpec == RunnerInit /\ [][RunnerNext]_vars

\* ---------------------------------------------------------------- claims
\* a record has been processed in this run; last describes that step
Processed == last.msg # "none"
ProcessedBy(m) == Processed /\ migrator = m
ProcessedPaged == Processed /\ migrator \in Paged
ProcessedOldLead == Processed /\ migrator = "lead" /\ last.phase = "old"

\* rows the step added to the entity and lookup tables
NewEntityRows == EntityRows(newDb) - EntityRows(last.before)
NewLookupRows == LookupRows(newDb) - LookupRows(last.before)

\* C1 - idempotent re-run (contact, position, old lead): a record the
\* previous run classified as Success is, in the next run against the same
\* source and the target that run left, classified as duplicate / already
\* existing (when no store call throws for it), no row is created for it and
\* the target, the row of the previous run included, is left as it was.
C1_IdempotentRerun ==
  (/\ ProcessedPaged \/ ProcessedOldLead
   /\ last.run >= 2
   /\ last.rec.id \in prev.success)
  => /\ newDb = last.before
     /\ NewEntityRows = 0
     /\ \A r \in prev.db.contact \cup prev.db.position \cup prev.db.lead :
          r \in newDb.contact \cup newDb.position \cup newDb.lead
     /\ ~last.faulted =>
          last.msg = (IF migrator = "lead" THEN "Existing" ELSE "Duplicate")
     /\ ~last.faulted /\ migrator \in Paged =>
          /\ stats.duplicates = last.stats0.duplicates + 1
          /\ stats.successful = last.stats0.successful
          /\ stats.failed = last.stats0.failed

C1_Witness ==
  /\ ProcessedBy("contact")
  /\ last.run = 2
  /\ last.rec.id \in prev.success
  /\ last.msg = "Duplicate"
  /\ prev.db.contact # {}

\* C4 - invalid identifier (contact, position): a record whose id, dashes
\* removed, is not all-hex of length 24 or 32 is counted as failed under
\* uuidFormat and nothing is written to the target for it.
InvalidId(id) ==
  LET h == RemoveDashes(id) IN ~IsHexOfLen(h, 24) /\ ~IsHexOfLen(h, 32)

C4_InvalidIdRejected ==
  (ProcessedPaged /\ InvalidId(last.rec.id))
  => /\ last.msg = "Failed"
     /\ last.cat = "uuidFormat"
     /\ stats.failed = last.stats0.failed + 1
     /\ stats.failures.uuidFormat = last.stats0.failures.uuidFormat + 1
     /\ stats.successful = last.stats0.successful
     /\ stats.duplicates = last.stats0.duplicates
     /\ newDb = last.before
     /\ NewEntityRows = 0 /\ NewLookupRows = 0

C4_Witness ==
  /\ ProcessedBy("position")
  /\ InvalidId(last.rec.id)
  /\ last.cat = "uuidFormat"
  /\ last.before.company # {}

\* the target company that holds the id of the source company before the step
HeldById(rec) ==
  IF IsUuidText(rec.id)
  THEN {r \in last.before.company : r.id = CanonUuid(rec.id)}
  ELSE {}

\* a target company that findUnique({domain}) reads back under another id text
OtherIdHoldsDomain(rec) ==
  \E r \in last.before.company : r.domain = rec.domain /\ r.id # rec.id

NotYetInTarget(rec) ==
  /\ IsUuidText(rec.id)
  /\ HeldById(rec) = {}
  /\ \A r \in last.before.company : r.domain # rec.domain

CreatedCompanies == newDb.company \ last.before.company

CompanyResolves(rec) ==
  /\ ~Falsy(rec.companyId)
  /\ IsUuidText(rec.companyId)
  /\ \E r \in last.before.company : r.id = CanonUuid(rec.companyId)

CreatedLeads == newDb.lead \ last.before.lead

SourceCompanies(rec) ==
  {o \in {oldDb.companies[i] : i \in 1..Len(oldDb.companies)} : o.id = rec.companyId}

MatchesNoTargetId(rec) ==
  /\ ~Falsy(rec.companyId)
  /\ \A r \in last.before.company :
       RemoveDashes(toLowerCase(r.id)) # RemoveDashes(toLowerCase(rec.companyId))

\* C6 as stated - reference fallback: the companyId matches no target id
\* and the source domain, normalised, equals a target domain without regard
\* to case; then findCompany returns that target company, byDomain grows by
\* one and byId is unchanged.
C6_ReferenceFallback ==
  (/\ ProcessedPaged /\ ~last.faulted /\ last.fc.lookups = 1
   /\ MatchesNoTargetId(last.rec))
  => \A o \in SourceCompanies(last.rec) :
       LET key == normalizeDomain(o.domain) IN
       (key # <<>> /\ \E r \in last.before.company : EqualsInsensitive(r.domain, key))
       => /\ last.fc.company # NoRow
          /\ last.fc.company \in last.before.company
          /\ EqualsInsensitive(last.fc.company.domain, key)
          /\ stats.companyMatches.byDomain = last.stats0.companyMatches.byDomain + 1
          /\ stats.companyMatches.byId = last.stats0.companyMatches.byId

\* C7 as stated - precedence of the domain fallback: exact match, then
\* case-insensitive match on the normalised domain or its "www."-toggled
\* variant, then substring containment; a row that matches only by
\* containment is not returned while another row matches by equality.
C7_LookupPrecedence ==
  (/\ ProcessedPaged /\ ~last.faulted /\ last.fc.lookups = 1
   /\ last.fc.byDomain = 1)
  => \A o \in SourceCompanies(last.rec) :
       LET key == normalizeDomain(o.domain)
           v == DomainVariants(key)
           exact == {r \in last.before.company : r.domain = key}
           loose == {r \in last.before.company :
                       EqualsInsensitive(r.domain, v[1]) \/ EqualsInsensitive(r.domain, v[2])}
       IN IF exact # {} THEN last.fc.company \in exact
          ELSE loose # {} => last.fc.company \in loose

\* C8 - missing reference (contact, position): when findCompany finds no
\* target company the record is counted as failed under missingCompany,
\* nothing is written to the target for it (no contact or position row, no
\* email status, no job role), and the record is handled once in the run.
Occurrences(seq, id) == Cardinality({i \in 1..Len(seq) : seq[i] = id})

C8_MissingCompany ==
  (ProcessedPaged /\ last.fc.lookups = 1 /\ last.fc.company = NoRow)
  => /\ last.msg = "Failed"
     /\ last.cat = "missingCompany"
     /\ stats.failed = last.stats0.failed + 1
     /\ stats.failures.missingCompany = last.stats0.failures.missingCompany + 1
     /\ stats.successful = last.stats0.successful
     /\ newDb = last.before
     /\ NewEntityRows = 0 /\ NewLookupRows = 0
     /\ Occurrences(results.failure, last.rec.id) = 1
     /\ Occurrences(results.success, last.rec.id) = 0
     /\ Occurrences(results.duplicate, last.rec.id) = 0

\* a contact whose company is neither in the target by id nor by domain
C8_Witness ==
  /\ ProcessedBy("contact")
  /\ ~last.faulted
  /\ MatchesNoTargetId(last.rec)
  /\ last.before.company # {}
  /\ last.fc.company = NoRow
  /\ last.cat = "missingCompany"

\* C10 as stated - exit code (contact, position): 0 when the final report
\* was reached; when the initial count or the first page read throws, no
\* record is processed and the exit code is not 0.
StartupFault == abortedBy = "count" \/ (abortedBy = "findMany" /\ skip = 0)

C10_ExitCodeContract ==
  (migrator \in Paged /\ pc = "exited")
  => /\ reported /\ ~disconnectError => exitCode = "0"
     /\ StartupFault => processedCount = 0 /\ exitCode # "0"

\* records counted in the ledger of the running script
Counted(c) == c.successCount + c.existingCount + c.errorCount
LedgerCount(st) ==
  IF migrator \in Paged THEN st.successful + st.duplicates + st.failed
  ELSE IF migrator = "company" THEN Counted(st)
  ELSE Counted(st.old) + Counted(st.company)

\* every source record has been processed when the report is printed
AllProcessed ==
  CASE migrator \in Paged ->
         /\ processedCount = Len(SourceTable)
         /\ stats.total = Len(SourceTable)
         /\ LedgerCount(stats) = Len(SourceTable)
    [] migrator = "company" -> LedgerCount(stats) = Len(oldDb.companies)
    [] OTHER ->
         /\ Counted(stats.old) = Len(oldDb.leads)
         /\ Counted(stats.company) = Len(fetched)

\* C9 - per-record failures never abort the batch: whatever a store call
\* throws while a record is migrated, the record is counted in the ledger
\* and the script is not ended by it (it stays in its loop, and only the
\* count, a page read or the status set-up can end a run early); the final
\* report is printed only with every source record processed.
C9_PerRecordFailuresContained ==
  /\ abortedBy # "record"
  /\ pc = "aborted" => abortedBy \in {"count", "findMany", "statuses"}
  /\ Processed /\ last.faulted =>
       /\ last.msg \in {"Failed", "Error", "Existing", "Success", "Duplicate"}
       /\ LedgerCount(stats) = LedgerCount(last.stats0) + 1
       /\ last.run = run /\ ~reported /\ abortedBy = "none" =>
            pc \in {"batch", "loop", "fetch"}
  /\ reported => AllProcessed /\ abortedBy = "none"

\* a store call threw for a record and the run went on to its report
C9_Witness ==
  /\ reported
  /\ Processed /\ last.faulted
  /\ last.msg = "Error"
  /\ AllProcessed
  /\ migrator = "contact"

\* the entity tables of a target
EntityTables(db) == <<db.company, db.contact, db.position, db.lead>>

\* C11 as stated - fatal lookup reconciliation (company, lead): the statuses
\* are reconciled before any source record is read or written; when the
\* reconciliation throws, the run ends with no source record processed and
\* no entity row written, and the process exits with a code other than 0.
C11_FatalReconciliation ==
  migrator \notin Paged =>
    /\ pc = "start" => ~Processed /\ fetched = <<>>
    /\ abortedBy = "statuses" =>
         /\ reconciled.err # "none"
         /\ ~Processed /\ fetched = <<>> /\ LedgerCount(stats) = 0
         /\ EntityTables(newDb) = EntityTables(prev.db)
         /\ pc = "exited" => exitCode # "0"

\* the normaliser has returned for the identifier under conversion
Normalized == calc.stage = "normalized"

\* C12 as stated - normaliser result: for a non-null text s with d = s
\* without its dashes, normalizeUuid returns d in lower case when d is 32
\* hex characters, d followed by "00000000" when d is 24 hex characters,
\* and signals an invalid identifier (null) in every other case.
C12_NormalizerResult ==
  (Normalized /\ calc.id # NULL) =>
    LET d == RemoveDashes(calc.id) IN
    IF IsHexOfLen(d, 32) THEN calc.normalized = toLowerCase(d)
    ELSE IF IsHexOfLen(d, 24)
    THEN /\ calc.normalized = d \o <<"0","0","0","0","0","0","0","0">>
         /\ Len(calc.normalized) = 32
    ELSE calc.normalized = NULL

\* C13 as stated - null versus malformed: for the null identifier the
\* normaliser returns null and reports nothing; for a malformed identifier
\* it returns something its caller can tell from what it returns for null.
C13_NullVersusMalformed ==
  Normalized =>
    /\ calc.id = NULL => calc.normalized = NULL /\ ~calc.warned
    /\ (calc.id # NULL /\ InvalidId(calc.id)) => calc.normalized # normalizeUuid(NULL)

\* c is the 8-4-4-4-12 grouping of the 32 characters d
IsGroupingOf(c, d) ==
  /\ Len(c) = 36
  /\ \A i \in {9, 14, 19, 24} : c[i] = "-"
  /\ RemoveDashes(c) = d

ProcessedSource == Processed /\ last.phase = "old"

\* the id a script puts into the row it builds for a source record
WrittenId(m, rec) ==
  LET company == [id |-> NULL, name |-> NULL, is_deleted |-> FALSE, status |-> NULL]
  IN CASE m = "company" -> transformCompany(rec).id
       [] m = "lead" -> transformLead(rec, determineLeadStatus(rec), NoRow).id
       [] m = "contact" ->
            newContactData(rec, normalizeUuid(rec.id), company, [value |-> NULL], NULL).id
       [] OTHER -> newPositionData(rec, normalizeUuid(rec.id), company, [id |-> NULL]).id

\* the rows of the script's own entity table after the step
OwnTable(m, db) ==
  CASE m = "company" -> db.company
    [] m = "lead" -> db.lead
    [] m = "contact" -> db.contact
    [] OTHER -> db.position

\* C15 as stated - canonical identifiers in all four migrators: the row a
\* migrator writes for a source record is built with the id the normaliser
\* returns for the record's id (undashed, 32 hex characters), and the target
\* holds the row under that identifier.
C15_CanonicalIds ==
  (ProcessedSource /\ last.msg = "Success") =>
    /\ WrittenId(migrator, last.rec) = normalizeUuid(last.rec.id)
    /\ IsHexOfLen(WrittenId(migrator, last.rec), 32)
    /\ \E row \in OwnTable(migrator, newDb) :
         RemoveDashes(row.id) = toLowerCase(normalizeUuid(last.rec.id))

\* v is src cut to at most M characters (null stays null)
CutTo(v, src, M) ==
  IF src = NULL THEN v = NULL
  ELSE IF Len(src) <= M THEN v = src
  ELSE Len(v) = M /\ \A i \in 1..M : v[i] = src[i]

\* the values the required fields name and job_title are derived from
DerivedName(c) ==
  IF ~Falsy(c.full_name) THEN c.full_name
  ELSE LET parts == trim((IF Falsy(c.first_name) THEN <<>> ELSE c.first_name)
                           \o <<" ">>
                           \o (IF Falsy(c.last_name) THEN <<>> ELSE c.last_name))
       IN IF parts = <<>> THEN <<"Unknown Contact">> ELSE parts

DerivedJobTitle(c) == IF Falsy(c.title) THEN <<"Unknown Title">> ELSE c.title

CreatedContacts == newDb.contact \ last.before.contact

\* C16 - truncation safety (contact): each length-limited field of the
\* contact row written equals the value derived from the source when that
\* is within the limit, and otherwise its first M characters exactly; the
\* cut is made before the write, and a record whose company resolves is
\* written whatever the length of its texts unless a store call throws.
C16_TruncationSafety ==
  /\ (ProcessedBy("contact") /\ last.msg = "Success") =>
       /\ Cardinality(CreatedContacts) = 1
       /\ \A row \in CreatedContacts :
            /\ CutTo(row.name, DerivedName(last.rec), 250)
            /\ CutTo(row.job_title, DerivedJobTitle(last.rec), 250)
            /\ CutTo(row.first_name, last.rec.first_name, 100)
            /\ CutTo(row.last_name, last.rec.last_name, 100)
            /\ CutTo(row.full_name, last.rec.full_name, 200)
            /\ CutTo(row.linkedin_url, last.rec.linkedin_url, 500)
            /\ CutTo(row.title, last.rec.title, 250)
            /\ CutTo(row.photo_url, last.rec.photo_url, 500)
            /\ CutTo(row.seniority, last.rec.seniority, 100)
  /\ (ProcessedBy("contact") /\ ~last.faulted /\ last.fc.company # NoRow) =>
       last.msg = "Success"

\* a contact with every text over its limit is written, cut to the limits
C16_Witness ==
  /\ ProcessedBy("contact") /\ last.msg = "Success"
  /\ Len(last.rec.linkedin_url) = 501 /\ Len(last.rec.full_name) = 251
  /\ \E row \in CreatedContacts :
       /\ Len(row.linkedin_url) = 500 /\ Len(row.name) = 250
       /\ Len(row.full_name) = 200 /\ Len(row.seniority) = 100

\* the status rows the run found, those it created, and the status whose
\* call ended the reconciliation with an error
StatusRowsFound == StatusTable(prev.db)
StatusRowsCreated == StatusTable(newDb) \ StatusRowsFound
ThrownStatus == StatusList[reconciled.at]

\* the target held the display value of status st under another key
HeldUnderOtherKey(st) ==
  \E r \in StatusRowsFound : r.value = st.value /\ r.key # st.key

\* C17 as stated - reconciliation order (company, lead): a status is looked
\* up by key, then by display value, and created only when both find
\* nothing; so no create is attempted, and no row created, for a status
\* whose display value the target already holds under another key.
C17_KeyThenValue ==
  migrator \notin Paged =>
    /\ reconciled.site = "create" => ~HeldUnderOtherKey(ThrownStatus)
    /\ \A c \in StatusRowsCreated : ~HeldUnderOtherKey(c)

\* C18 as stated - benign duplicate on create (company, lead): when the
\* create of a status row fails with a duplicate-key error the run is not
\* ended by it: the reconciler goes on with the row that exists.
C18_BenignDuplicate ==
  (migrator \notin Paged /\ reconciled.site = "create" /\ reconciled.err = "P2002") =>
    /\ abortedBy # "statuses"
    /\ pc # "aborted"

\* the job roles whose display title is title, cut as findOrCreateJobRole
\* cuts it for the create or for the fallback create
RolesFor(title) ==
  {r \in newDb.jobRole :
     r.title_display \in {substring0(title, 200), substring0(title, 100)}}

SourceTitles ==
  {oldDb.positions[i].position_title : i \in 1..Len(oldDb.positions)} \ {NULL}

\* C19 as stated - find-or-create is idempotent for job roles: positions
\* with the same title are given the same JobRole row, and the target never
\* holds two JobRole rows created for one title, the fallback with the
\* shorter title included.
C19_JobRoleIdempotent ==
  migrator = "position" =>
    /\ \A p, q \in newDb.position : p.title = q.title => p.job_role_id = q.job_role_id
    /\ \A title \in SourceTitles : Cardinality(RolesFor(title)) <= 1

\* the record of the step was counted as duplicate / already existing, or
\* as failed, and as nothing else
CountedDuplicate ==
  IF migrator \in Paged
  THEN /\ stats.duplicates = last.stats0.duplicates + 1
       /\ stats.failed = last.stats0.failed
  ELSE /\ stats.old.existingCount = last.stats0.old.existingCount + 1
       /\ stats.old.errorCount = last.stats0.old.errorCount

CountedFailed ==
  IF migrator \in Paged
  THEN /\ stats.failed = last.stats0.failed + 1
       /\ stats.duplicates = last.stats0.duplicates
  ELSE /\ stats.old.errorCount = last.stats0.old.errorCount + 1
       /\ stats.old.existingCount = last.stats0.old.existingCount

\* C20 as stated - unique-violation classification (contact, position,
\* lead): when the store rejects the entity write with a unique-constraint
\* violation, the record is counted as duplicate / skipped when the field
\* is its own identifier, and as failed when it is another unique field.
C20_UniqueViolationClassified ==
  (ProcessedSource /\ migrator \in {"contact", "position", "lead"}
     /\ last.rejected # "none")
  => IF last.rejected = "id" THEN CountedDuplicate ELSE CountedFailed

\* the operations that only read
SourceReads == {"count", "findMany", "findUnique"}

\* C21 - the source store is read-only: in every run of every script, on
\* every path, the operations issued on the source are count, findMany and
\* findUnique only, and the source store holds what it held when the run
\* started.
C21_SourceReadOnly ==
  /\ \A o \in source.ops : o.op \in SourceReads
  /\ oldDb = source.start

\* a run of each script has ended after reading the source: the paged
\* scripts counted, paged and looked a legacy company up, a record was
\* written, and the source is what it was
C21_Witness ==
  /\ pc = "exited" /\ migrator = "contact" /\ succeeded # {}
  /\ {o.op : o \in source.ops} = SourceReads
  /\ oldDb = source.start

\* the lead script printed its results and counted no error in either pass
LeadRunClean ==
  /\ migrator = "lead" /\ reported
  /\ stats.old.errorCount = 0 /\ stats.company.errorCount = 0

\* some lead of the target belongs to company c and is converted
HasConvertedLead(db, c) ==
  \E l \in db.lead :
    l.company_id = c.id /\ l.status = <<"converted_to_company">>

\* C22 as stated - lead coverage of companies: when a lead migration run
\* finishes without per-record errors, every company of the target has a
\* lead with company_id equal to its id and status converted_to_company.
C22_LeadCoverage ==
  LeadRunClean => \A c \in newDb.company : HasConvertedLead(newDb, c)

\* two identifier texts name the same identifier
SameId(a, b) == toLowerCase(RemoveDashes(a)) = toLowerCase(RemoveDashes(b))

\* the companies of the target the legacy reference of rec matches
MatchedCompanies(rec) ==
  IF Falsy(rec.companyId) THEN {}
  ELSE {c \in last.before.company : SameId(c.id, rec.companyId)}

EmailHolders(rec) ==
  IF Falsy(rec.email) \/ normalizeUuid(rec.id) = NULL THEN {}
  ELSE {r \in last.before.contact :
          r.email = rec.email /\ ~SameId(r.id, normalizeUuid(rec.id))}

\* e is local+suffix@domain for the email local@domain
IsSuffixed(e, email) ==
  \E at \in AtPositions(email) :
    /\ Len(e) > Len(email) + 1
    /\ SubSeq(e, 1, at - 1) = SubSeq(email, 1, at - 1)
    /\ e[at] = "+"
    /\ SubSeq(e, Len(e) - (Len(email) - at), Len(e))
         = SubSeq(email, at, Len(email))

\* the step for rec got as far as the email check: the record is new, its
\* company was found and its email status is there
ReachedEmailCheck ==
  /\ ProcessedBy("contact")
  /\ last.fc.company # NoRow
  /\ last.cat # "emailStatusError"

NoSharedEmail(db) ==
  \A r1, r2 \in db.contact :
    (r1.email = r2.email /\ r1.email # NULL) => r1 = r2

Rank(name) == CHOOSE k \in 1..Len(migrations) : migrations[k] = name

\* C25 - sequential runner ordering: the runner starts the migrations in
\* the order company, lead, position, contact only; it starts none while
\* a child it started has not closed; company is started without a prompt
\* and each later one only on the answer y or yes (in any case of letters)
\* to its "Proceed" prompt.
C25_RunnerOrdering ==
  runner.at # "none" =>
    /\ \A k \in 1..Len(runner.started) :
         LET s == runner.started[k]
         IN /\ s.alive = {}
            /\ k > 1 => Rank(runner.started[k - 1].name) < Rank(s.name)
            /\ IF s.name = "company" THEN s.answer = NULL /\ k = 1
               ELSE toLowerCase(s.answer) \in {<<"y">>, <<"y", "e", "s">>}
    /\ Cardinality(runner.running) <= 1
    /\ runner.at = "child" <=> runner.running # {}

\* lead was skipped, position has closed, and contact runs on the answer
\* "Yes" to its prompt
C25_Witness ==
  /\ runner.at = "child" /\ runner.running = {"contact"}
  /\ Len(runner.started) = 3
  /\ runner.started[2].name = "position"
  /\ runner.started[3].answer = <<"Y", "e", "s">>

\* the step for rec called findOrCreateJobRole: the position is new and
\* its company was found
ReachedJobRole == ProcessedBy("position") /\ last.fc.company # NoRow

CreatedJobRoles == newDb.jobRole \ last.before.jobRole

\* C26 - narrow fallback for job roles: the second create (title cut to 100
\* characters, description "Generic job role") is attempted if and only if
\* the first create failed with a value-too-long error; after any other
\* failure of the first create, and after any failure of the fallback,
\* nothing more is created, the position is counted under missingJobRole
\* and no position row is written.
C26_NarrowFallback ==
  ReachedJobRole =>
    LET c == last.creates
    IN /\ Len(c) <= 2
       /\ Len(c) = 2 <=> (Len(c) >= 1 /\ c[1] = "tooLong")
       /\ (Len(c) = 2 /\ c[2] = "ok") =>
            /\ Cardinality(CreatedJobRoles) = 1
            /\ \A r \in CreatedJobRoles :
                 /\ r.title_display = substring0(last.rec.position_title, 100)
                 /\ r.role_description = GenericJobRole
       /\ (Len(c) >= 1 /\ c[Len(c)] # "ok") =>
            /\ last.msg = "Failed" /\ last.cat = "missingJobRole"
            /\ CreatedJobRoles = {}
            /\ newDb.position = last.before.position

\* the first create failed with value too long, the fallback failed too,
\* and the position is counted under missingJobRole
C26_Witness ==
  /\ ReachedJobRole
  /\ last.creates = <<"tooLong", "tooLong">>
  /\ last.cat = "missingJobRole"
  /\ newDb.position = last.before.position

\* the ids of the result lines collected so far, list by list
ResultIds == results.success \o results.duplicate \o results.failure

\* C27 - pagination covers every record exactly once (contact and position
\* scripts, source table of N records, unchanged and listed in a stable
\* order): pages are fetched at the offsets 0, batchSize, 2 batchSize, ...
\* below N; the records handed to the per-record migration are the first
\* processedCount records of the table, each once; and the report comes
\* with processedCount and the ledger total equal to N.
C27_Pagination ==
  (migrator \in Paged /\ (pc \in {"loop", "batch", "done"} \/ reported))
  => LET N == Len(SourceTable)
     IN /\ total = N
        /\ skip % BatchSize = 0
        /\ pc = "batch" =>
             /\ skip < N
             /\ skip <= processedCount
             /\ page = SubSeq(SourceTable, processedCount + 1,
                              Min(skip + BatchSize, N))
        /\ pc = "loop" => processedCount = Min(skip, N)
        /\ stats.total = processedCount
        /\ Len(ResultIds) = processedCount
        /\ \A i \in 1..processedCount :
             Occurrences(ResultIds, SourceTable[i].id)
               = Cardinality({j \in 1..processedCount :
                                SourceTable[j].id = SourceTable[i].id})
        /\ (processedCount > 0 /\ last # NoLast) =>
             last.rec = SourceTable[processedCount]
        /\ reported => processedCount = N

\* a table of more records than one page, the last page not full, has
\* been reported with every record processed
C27_Witness ==
  /\ migrator \in Paged /\ reported
  /\ Len(SourceTable) > BatchSize
  /\ Len(SourceTable) % BatchSize # 0
  /\ processedCount = Len(SourceTable)
  /\ stats.total = Len(SourceTable)

\* C28 as stated - title normalisation: white space before and after the
\* title gives no underscore before or after the result, i.e. normalising
\* a title equals normalising it with the surrounding white space removed;
\* "  Project Manager  " gives "project_manager".
C28_TitleNormalization ==
  calc.stage = "both" =>
    /\ calc.normalized = calc.ofTrimmed
    /\ calc.title = ProjectManagerInput => calc.normalized = ProjectManagerExpected

\* sum of the failure counters of a ledger
RECURSIVE SumOver(_, _)
SumOver(f, keys) ==
  IF keys = {} THEN 0
  ELSE LET k == CHOOSE x \in keys : TRUE IN f[k] + SumOver(f, keys \ {k})

FailureSum(st) == SumOver(st.failures, DOMAIN st.failures)

\* the outcome counters and failure counters the step raised, each by one
RaisedOutcomes ==
  {k \in {"successful", "duplicates", "failed"} : stats[k] = last.stats0[k] + 1}
RaisedFailures ==
  {k \in DOMAIN stats.failures : stats.failures[k] = last.stats0.failures[k] + 1}

\* C29 - ledger accounting (contact and position scripts): after each
\* record, total = successful + duplicates + failed and failed is the sum
\* of the failure counters; the record raised total by one and exactly one
\* outcome counter by one (with failed, exactly one failure counter); the
\* success, duplicate and failure lists are as long as their counters.
C29_LedgerAccounting ==
  migrator \in Paged =>
    /\ stats.total = stats.successful + stats.duplicates + stats.failed
    /\ stats.failed = FailureSum(stats)
    /\ Len(results.success) = stats.successful
    /\ Len(results.duplicate) = stats.duplicates
    /\ Len(results.failure) = stats.failed
    /\ Processed =>
         /\ stats.total = last.stats0.total + 1
         /\ Cardinality(RaisedOutcomes) = 1
         /\ \A k \in {"successful", "duplicates", "failed"} \ RaisedOutcomes :
              stats[k] = last.stats0[k]
         /\ Cardinality(RaisedFailures) = (IF "failed" \in RaisedOutcomes THEN 1 ELSE 0)
         /\ \A k \in DOMAIN stats.failures \ RaisedFailures :
              stats.failures[k] = last.stats0.failures[k]

\* a run has counted a duplicate and failures of two kinds, and its lists
\* are as long as its counters
C29_Witness ==
  /\ migrator \in Paged /\ Processed
  /\ stats.duplicates > 0 /\ stats.failed > 1
  /\ Cardinality({k \in DOMAIN stats.failures : stats.failures[k] > 0}) > 1
  /\ stats.total = stats.successful + stats.duplicates + stats.failed
  /\ Len(results.failure) = stats.failed

\* a store call inside findCompany threw: it returned null for a reference
\* that it resolves when no call throws
FindCompanyThrew ==
  /\ ProcessedPaged /\ last.faulted
  /\ last.fc.lookups = 1 /\ last.fc.company = NoRow
  /\ FcNone(1) \notin findCompany(last.before, oldDb, last.rec.companyId, {})

\* C30 as stated - store errors during company resolution are database
\* errors: when a store call inside findCompany throws, the contact or
\* position is counted under failures.dbError and not under
\* failures.missingCompany.
C30_LookupErrorIsDbError ==
  FindCompanyThrew
  => /\ last.cat = "dbError"
     /\ stats.failures.missingCompany = last.stats0.failures.missingCompany

====
